---------------------------- MODULE Spec2Model ----------------------------
(***************************************************************************)
(* A model of the asana-simulation data generation pipeline:               *)
(*   - utils/date_utils.py   ensure_chronology          (SpecChrono)       *)
(*   - generators/users.py   generate_users             (SpecUsers)        *)
(*   - generators/tasks.py   generate_tasks             (SpecTasks)        *)
(*   - main.py               main, insert_data and the generators reduced  *)
(*                           to identifiers and foreign keys (Spec)        *)
(*                                                                         *)
(* and the record generators one call at a time (SpecRecords, SpecRuns,     *)
(* SpecAttachments, SpecTags).                                             *)
(*                                                                         *)
(* Each specification runs one of these; the variables of the others stay  *)
(* idle.                                                                   *)
(*                                                                         *)
(* What the random module and the content provider return to a step of a   *)
(* generator is the variable rnd.  A step named ...Random puts there the   *)
(* values the step of the code that comes next is handed, out of the part  *)
(* of their ranges that the bounds name; that step computes from them      *)
(* what the code computes from them, whatever the values.                  *)
(*                                                                         *)
(* Date strings ("YYYY-MM-DD") are records [y, m, d]; datetime values are  *)
(* day ordinals counted from 2020-01-01 = 1.  An absent (None) string is   *)
(* NoneStr and an absent datetime is NoneDt.                               *)
(***************************************************************************)
EXTENDS Integers, Sequences, FiniteSets, TLC

VARIABLES
    \* ---- ensure_chronology (utils/date_utils.py) ----
    ec_pc,          \* position inside ensure_chronology
    ec_input,       \* the arguments of the first call (kept for reference)
    ec_args,        \* the arguments of the current call
    created_dt,     \* local created_dt
    due_dt,         \* local due_dt
    completed_dt,   \* local completed_dt
    ec_ret,         \* the returned dictionary of the current call
    ec_first,       \* the dictionary returned by the first call
    ec_runs         \* number of calls started (1 or 2)

chronoVars == <<ec_pc, ec_input, ec_args, created_dt, due_dt, completed_dt,
                ec_ret, ec_first, ec_runs>>

VARIABLES
    \* ---- generate_users (generators/users.py) ----
    gu_pc,          \* position inside generate_users
    gu_teams,       \* argument teams: the list of team ids
    gu_total,       \* argument total_users
    gu_idx,         \* 1-based position of the team loop
    gu_left,        \* iterations left of the per-team user loop
    gu_users,       \* local users
    seen_emails,    \* local seen_emails
    gu_email,       \* profile["email"], the candidate
    base_local,     \* local base_local
    domain,         \* local domain
    counter,        \* local counter
    unique_email,   \* local unique_email
    gu_ret,         \* the returned list
    gu_uuid         \* number of identifiers minted by generate_uuid

usersVars == <<gu_pc, gu_teams, gu_total, gu_idx, gu_left, gu_users,
               seen_emails, gu_email, base_local, domain, counter,
               unique_email, gu_ret, gu_uuid>>

VARIABLES
    \* ---- generate_tasks (generators/tasks.py) ----
    gt_pc,          \* position inside generate_tasks
    gt_projects,    \* argument projects: the list of project ids
    gt_limit,       \* argument total_task_limit
    gt_file,        \* the file prompts/task_prompts.txt read by load_prompts
    gt_prompts,     \* local prompts
    gt_exc,         \* the exception generate_tasks raised
    base_tasks_per_project,     \* local base_tasks_per_project
    gt_p,           \* 1-based position of the project loop
    num_tasks,      \* local num_tasks, drawn for the current project
    gt_i,           \* iterations of the task loop completed for the project
    gt_drawn,       \* the values of num_tasks drawn so far, one per project
    gt_tasks,       \* local tasks
    gt_early        \* TRUE when the return of line 114 was taken

tasksVars == <<gt_pc, gt_projects, gt_limit, gt_file, gt_prompts, gt_exc,
               base_tasks_per_project, gt_p, num_tasks, gt_i, gt_drawn,
               gt_tasks, gt_early>>

VARIABLES
    \* ---- main (main.py) ----
    m_pc,           \* position inside main
    m_i,            \* position of the loop of the generator being run, or
                    \* of the insert_data call being made
    m_uuid,         \* number of identifiers minted by generate_uuid
    m_limit,        \* TOTAL_TASKS, read from the environment
    m_file,         \* the file prompts/task_prompts.txt of the working
                    \* directory
    org,            \* the locals of main, one per entity type
    teams,
    all_users,      \* the local users of generate_users before the truncation
    users,
    projects,
    sections,
    tasks,
    subtasks,
    comments,
    tags,
    task_tags,
    attachments,
    custom_fields,
    insert_calls,   \* the table names of the insert_data calls made so far
    db,             \* the rows committed to each table
    commits         \* number of conn.commit() calls made by insert_data

mainVars == <<m_pc, m_i, m_uuid, m_limit, m_file, org, teams, all_users,
              users, projects, sections, tasks, subtasks, comments, tags,
              task_tags, attachments, custom_fields, insert_calls, db,
              commits>>

VARIABLES
    \* ---- weighted_choice (utils/random_utils.py) ----
    wc_pc,          \* position inside weighted_choice
    wc_choices,     \* argument choices: the list of (item, weight) pairs of
                    \* the dictionary, in insertion order
    wc_ret          \* the returned item

choiceVars == <<wc_pc, wc_choices, wc_ret>>

VARIABLES
    \* ---- one generator of records (generators/projects.py, sections.py,
    \*      tasks.py, subtasks.py, comments.py) with the text helpers of
    \*      utils/llm_helper.py ----
    r_pc,           \* position inside the generator
    r_gen,          \* the generator that runs
    r_parents,      \* its first argument: the list of parent records
    r_users,        \* argument users
    r_limit,        \* argument total_task_limit of generate_tasks
    r_llm,          \* LLM_ENABLED and _OPENAI_INITIALIZED of llm_helper
    r_file,         \* the prompt file read by load_prompts
    r_prompts,      \* local prompts
    r_department,   \* local department of generate_projects
    r_rec,          \* the record appended by the last iteration (for
                    \* sections: the records appended for the last project)
    r_count,        \* number of records appended so far
    r_call,         \* how the last content provider call ended
    r_exc           \* the exception the generator raised

recVars == <<r_pc, r_gen, r_parents, r_users, r_limit, r_llm, r_file,
             r_prompts, r_department, r_rec, r_count, r_call, r_exc>>

\* the arguments and the environment of a generator call
recArgs == <<r_gen, r_parents, r_users, r_limit, r_llm, r_file>>

VARIABLES
    \* ---- two runs of generate_teams (generators/teams.py) ----
    d_pc,           \* position inside the current run
    d_stream,       \* the values getrandbits returns after
                    \* random.seed(42), in order; the stream goes on with
                    \* zeros past the values recorded
    d_num,          \* argument num_teams of both runs
    d_run,          \* the run in progress: 1 or 2
    d_pos,          \* number of raw values the current run has consumed
    d_out           \* the teams of the first and of the second run

runsVars == <<d_pc, d_stream, d_num, d_run, d_pos, d_out>>

VARIABLES
    \* ---- the per-task loops of generate_subtasks and
    \*      generate_attachments, which run as record generators ----
    a_sel,          \* the draw that selects the task, or skips it
    a_num,          \* local num_subtasks, or num_attachments
    a_left,         \* iterations left of the inner loop of the task
    a_used,         \* local used_names
    a_name          \* local file_name

attVars == <<a_sel, a_num, a_left, a_used, a_name>>

VARIABLES
    \* ---- generate_tags and assign_tags_to_tasks (generators/tags.py) ----
    tg_pc,          \* position inside the function
    tg_fn,          \* the function that runs
    tg_arg,         \* argument num_tags, or argument max_tags_per_task
    tg_tasks,       \* argument tasks of assign_tags_to_tasks
    tg_tags,        \* argument tags of assign_tags_to_tasks, or the local
                    \* selected_names of generate_tags
    tg_i,           \* number of iterations of the loop completed
    tg_ret          \* the list built: tags, or task_tags

tagVars == <<tg_pc, tg_fn, tg_arg, tg_tasks, tg_tags, tg_i, tg_ret>>

VARIABLES
    \* ---- the random module and the content provider ----
    rnd             \* what they return to the step that comes next: the
                    \* values of its random.choice, random.randint,
                    \* random.sample, weighted_choice and random_bool calls,
                    \* and what becomes of its content provider call

rndVars == <<rnd>>

vars == <<chronoVars, usersVars, tasksVars, mainVars, choiceVars, recVars,
          runsVars, attVars, tagVars, rndVars>>

-----------------------------------------------------------------------------
(* Bounds of the model *)

\* the contiguous input window holds the days 26 Jan .. 26 Jan + MaxSpan
MaxSpan == 6

\* generate_users: at most MaxTeams teams and total_users in 0..MaxTotalUsers
MaxTeams == 2

MaxTotalUsers == 3

\* generate_tasks: at most MaxProjects projects, total_task_limit in
\* 0..MaxTaskLimit
MaxProjects == 3

MaxTaskLimit == 45

\* main: the cardinalities of the run, scaled down.  MainTeams stands for
\* num_teams (40), MainTotalUsers for total_users (8000), MainTaskLimit for
\* TOTAL_TASKS (20000) and MainTags for the num_tags of generate_tags (40).
\* Of the values random hands to a generator call, MRandom follows those
\* of the first MainDraws parents of its list: a per-parent count is then
\* one of the MainFan lowest values of the generator's own randint range,
\* and a task can be selected or skipped, assigned or not.  Past these
\* parents it hands the lowest value of a range, selects no task and
\* assigns none.
MainTeams == 2

MainTotalUsers == 1

MainTaskLimit == 60

MainTags == 1

MainFan == 1

MainDraws == 2

\* weighted_choice: dictionaries of up to MaxItems items with integer weights
\* in -1..MaxWeight
MaxItems == 3

MaxWeight == 2

\* the record generators: of the values random.randint can return to a
\* pass the model follows the MaxDraw smallest and the MaxDraw largest of
\* the range, of the items random.choice can return the first MaxPick of
\* the list, and generate_tasks is called with a total_task_limit of
\* RecTaskLimit - 1, of RecTaskLimit or with its default
MaxDraw == 1

MaxPick == 1

RecTaskLimit == 10

\* two runs of generate_teams: num_teams in 1..MaxRunTeams; the stream of
\* the seed holds values in 0..MaxRaw-1 and the least value that
\* random.choice discards, and MaxDiscard values more than the two that a
\* team reads when none is discarded; values of uuid4 in 1..MaxEntropy
MaxRunTeams == 2

MaxRaw == 2

MaxDiscard == 1

MaxEntropy == 2

-----------------------------------------------------------------------------
(* Calendar: strptime / strftime with DATE_FMT = "%Y-%m-%d" *)

NoneStr == [y |-> 0, m |-> 0, d |-> 0]

NoneDt == 0

IsLeap(y) == (y % 4 = 0 /\ y % 100 # 0) \/ y % 400 = 0

DaysInMonth(y, m) ==
    IF m = 2 THEN (IF IsLeap(y) THEN 29 ELSE 28)
    ELSE IF m \in {4, 6, 9, 11} THEN 30 ELSE 31

YearLen(y) == IF IsLeap(y) THEN 366 ELSE 365

RECURSIVE DaysBeforeMonth(_, _)
DaysBeforeMonth(y, m) ==
    IF m <= 1 THEN 0 ELSE DaysBeforeMonth(y, m - 1) + DaysInMonth(y, m - 1)

RECURSIVE DaysBeforeYear(_)
DaysBeforeYear(y) ==
    IF y <= 2020 THEN 0 ELSE DaysBeforeYear(y - 1) + YearLen(y - 1)

\* _to_date: parse a date string into a datetime (a day ordinal)
ToDate(s) == DaysBeforeYear(s.y) + DaysBeforeMonth(s.y, s.m) + s.d

RECURSIVE YearOf(_, _)
YearOf(n, y) == IF n <= YearLen(y) THEN y ELSE YearOf(n - YearLen(y), y + 1)

RECURSIVE MonthOf(_, _, _)
MonthOf(n, y, m) ==
    IF n <= DaysInMonth(y, m) THEN m ELSE MonthOf(n - DaysInMonth(y, m), y, m + 1)

\* _to_str: format a datetime as a date string
ToStr(n) ==
    LET y  == YearOf(n, 2020)
        ny == n - DaysBeforeYear(y)
        m  == MonthOf(ny, y, 1)
    IN  [y |-> y, m |-> m, d |-> ny - DaysBeforeMonth(y, m)]

-----------------------------------------------------------------------------
(* ensure_chronology *)

\* random.randint(1, 7)
Offsets == 1..7

\* `if due_dt and due_dt < created_dt`
DueOutOfOrderOrEqual(due, created) == due # NoneDt /\ due <= created

DueOutOfOrder(due, created) == due # NoneDt /\ due < created

\* `created_dt + timedelta(days=random.randint(1, 7))`
CorrectedDueBackwards(created, d) == created - d

CorrectedDue(created, d) == created + d

\* `reference_dt = due_dt if due_dt else created_dt`, read after the due check
ReferenceOrigDue(due, created) ==
    IF ec_args.due_date # NoneStr THEN ToDate(ec_args.due_date) ELSE created

Reference(due, created) == IF due # NoneDt THEN due ELSE created

\* `if completed_dt: ... if completed_dt < reference_dt`
CompletedOutOfOrderNever(completed, reference) == FALSE

CompletedOutOfOrder(completed, reference) ==
    completed # NoneDt /\ completed < reference

\* `reference_dt + timedelta(days=random.randint(1, 7))`
CorrectedCompletedFromCreated(reference, d) == created_dt + d

CorrectedCompleted(reference, d) == reference + d

\* `_to_str(x) if x else None`
OptStr(dt) == IF dt # NoneDt THEN ToStr(dt) ELSE NoneStr

\* `_to_date(x) if x else None`
OptDate(s) == IF s # NoneStr THEN ToDate(s) ELSE NoneDt

\* lines 106-109: parse the three arguments
EcParse ==
    /\ ec_pc = "call"
    /\ created_dt' = ToDate(ec_args.created_at)
    /\ due_dt' = OptDate(ec_args.due_date)
    /\ completed_dt' = OptDate(ec_args.completed_at)
    /\ ec_pc' = "parsed"
    /\ UNCHANGED <<ec_input, ec_args, ec_ret, ec_first, ec_runs>>

\* lines 111-112: correct an out-of-order due date
EcFixDue ==
    /\ ec_pc = "parsed"
    /\ IF DueOutOfOrder(due_dt, created_dt)
       THEN \E d \in Offsets : due_dt' = CorrectedDue(created_dt, d)
       ELSE due_dt' = due_dt
    /\ ec_pc' = "due_checked"
    /\ UNCHANGED <<ec_input, ec_args, created_dt, completed_dt, ec_ret,
                   ec_first, ec_runs>>

\* lines 114-117: correct an out-of-order completed date
EcFixCompleted ==
    /\ ec_pc = "due_checked"
    /\ LET reference_dt == Reference(due_dt, created_dt)
       IN  IF CompletedOutOfOrder(completed_dt, reference_dt)
           THEN \E d \in Offsets :
                    completed_dt' = CorrectedCompleted(reference_dt, d)
           ELSE completed_dt' = completed_dt
    /\ ec_pc' = "completed_checked"
    /\ UNCHANGED <<ec_input, ec_args, created_dt, due_dt, ec_ret, ec_first,
                   ec_runs>>

\* lines 119-123: format and return the dictionary
EcReturn ==
    /\ ec_pc = "completed_checked"
    /\ ec_ret' = [created_at   |-> ToStr(created_dt),
                  due_date     |-> OptStr(due_dt),
                  completed_at |-> OptStr(completed_dt)]
    /\ ec_first' = IF ec_runs = 1 THEN ec_ret' ELSE ec_first
    /\ ec_pc' = "returned"
    /\ UNCHANGED <<ec_input, ec_args, created_dt, due_dt, completed_dt, ec_runs>>

\* a second call of ensure_chronology on the dictionary the first returned
EcReapply ==
    /\ ec_pc = "returned"
    /\ ec_runs = 1
    /\ ec_args' = ec_ret
    /\ ec_runs' = 2
    /\ ec_pc' = "call"
    /\ created_dt' = NoneDt
    /\ due_dt' = NoneDt
    /\ completed_dt' = NoneDt
    /\ ec_ret' = [created_at |-> NoneStr, due_date |-> NoneStr,
                  completed_at |-> NoneStr]
    /\ UNCHANGED <<ec_input, ec_first>>

\* the days of the input window, counted within 2023: 5 Jan, 10 Jan and
\* 26 Jan .. 26 Jan + MaxSpan
InputDays == {5, 10} \cup (26 .. (26 + MaxSpan))

IsValidDate(s) == s.m \in 1..12 /\ s.d \in 1..DaysInMonth(s.y, s.m)

InputDates ==
    {s \in [y : {2023}, m : {1, 2}, d : 1..31] :
        IsValidDate(s) /\ DaysBeforeMonth(s.y, s.m) + s.d \in InputDays}

NoRet == [created_at |-> NoneStr, due_date |-> NoneStr, completed_at |-> NoneStr]

ChronoIdle ==
    /\ ec_pc = "idle"
    /\ ec_input = NoRet
    /\ ec_args = NoRet
    /\ created_dt = NoneDt
    /\ due_dt = NoneDt
    /\ completed_dt = NoneDt
    /\ ec_ret = NoRet
    /\ ec_first = NoRet
    /\ ec_runs = 0

ChronoCall ==
    /\ ec_pc = "call"
    /\ ec_input \in [created_at   : InputDates,
                     due_date     : InputDates \cup {NoneStr},
                     completed_at : InputDates \cup {NoneStr}]
    /\ ec_args = ec_input
    /\ created_dt = NoneDt
    /\ due_dt = NoneDt
    /\ completed_dt = NoneDt
    /\ ec_ret = NoRet
    /\ ec_first = NoRet
    /\ ec_runs = 1


-----------------------------------------------------------------------------
(* generate_users *)

\* An email is a string, modelled as the sequence of its characters.
\* The candidates the profile provider returns: two local parts, two
\* domains, and one candidate that already has the form of a suffixed email.
Candidates ==
    { <<"a", "@", "d">>, <<"b", "@", "d">>, <<"a", "@", "e">>,
      <<"a", "+", "2", "@", "d">> }

NoEmail == << >>

\* position of the first "@" of an email
FirstAt(email) == CHOOSE i \in 1..Len(email) :
                      email[i] = "@" /\ \A j \in 1..(i - 1) : email[j] # "@"

\* `base_local, domain = email.split("@", 1)`
SplitLocal(email) == SubSeq(email, 1, FirstAt(email) - 1)

SplitDomain(email) == SubSeq(email, FirstAt(email) + 1, Len(email))

\* `f"{base_local}+{counter}@{domain}"`
FormatEmail(local, c, dom) == local \o <<"+", ToString(c)>> \o <<"@">> \o dom

\* `counter += 1`
NextCounterSkipping(c) == c + 2

NextCounter(c) == c + 1

\* `seen_emails.add(email)`
SeenAddCandidate(seen, email) == seen \cup {gu_email}

SeenAdd(seen, email) == seen \cup {email}

\* generate_uuid(prefix): a fresh identifier, the n-th minted
Uuid(prefix, n) == <<prefix, n>>

\* `int(team_size * random.uniform(-0.1, 0.2))`: int() truncates towards zero
Variations(team_size) == (0 - (team_size \div 10)) .. (team_size \div 5)

Max(a, b) == IF a >= b THEN a ELSE b

Min(a, b) == IF a <= b THEN a ELSE b

\* the team size before the variation, for the team at 0-based position idx
BaseTeamSize(idx, total, num_teams) ==
    (total \div num_teams) + (IF idx < total % num_teams THEN 1 ELSE 0)

\* the results of random.shuffle(users) followed by users[:total_users]
IndexPermutations(n) == {p \in [1..n -> 1..n] : \A i, j \in 1..n : p[i] = p[j] => i = j}

ShuffleOnly(us, total) ==
    {[i \in 1..Len(us) |-> us[p[i]]] : p \in IndexPermutations(Len(us))}

ShuffleTruncate(us, total) ==
    {[i \in 1..Min(total, Len(us)) |-> us[p[i]]] : p \in IndexPermutations(Len(us))}

\* lines 31-42: the guard and the initialisation
GuEnter ==
    /\ gu_pc = "call"
    /\ IF gu_teams = << >>
       THEN /\ gu_pc' = "raised"
            /\ UNCHANGED <<gu_idx, gu_users, seen_emails>>
       ELSE /\ gu_pc' = "team"
            /\ gu_idx' = 1
            /\ gu_users' = << >>
            /\ seen_emails' = {}
    /\ UNCHANGED <<gu_teams, gu_total, gu_left, gu_email, base_local, domain,
                   counter, unique_email, gu_ret, gu_uuid>>

\* lines 45-56: the head of the team loop and the size of the team
GuTeam ==
    /\ gu_pc = "team"
    /\ IF gu_idx > Len(gu_teams)
       THEN /\ gu_pc' = "shuffle"
            /\ UNCHANGED gu_left
       ELSE /\ \E variation \in Variations(BaseTeamSize(gu_idx - 1, gu_total,
                                                        Len(gu_teams))) :
                 gu_left' = Max(1, BaseTeamSize(gu_idx - 1, gu_total,
                                                Len(gu_teams)) + variation)
            /\ gu_pc' = "profile"
    /\ UNCHANGED <<gu_teams, gu_total, gu_idx, gu_users, seen_emails, gu_email,
                   base_local, domain, counter, unique_email, gu_ret, gu_uuid>>

\* lines 58-73: the head of the user loop, the profile and the split
GuProfile ==
    /\ gu_pc = "profile"
    /\ IF gu_left = 0
       THEN /\ gu_idx' = gu_idx + 1
            /\ gu_pc' = "team"
            /\ UNCHANGED <<gu_email, base_local, domain, counter, unique_email>>
       ELSE /\ \E email \in Candidates :
                 /\ gu_email' = email
                 /\ base_local' = SplitLocal(email)
                 /\ domain' = SplitDomain(email)
                 /\ unique_email' = email
            /\ counter' = 1
            /\ gu_pc' = "dedupe"
            /\ UNCHANGED gu_idx
    /\ UNCHANGED <<gu_teams, gu_total, gu_left, gu_users, seen_emails, gu_ret,
                   gu_uuid>>

\* lines 75-77: one iteration of `while unique_email in seen_emails`
GuDedupe ==
    /\ gu_pc = "dedupe"
    /\ unique_email \in seen_emails
    /\ counter' = NextCounter(counter)
    /\ unique_email' = FormatEmail(base_local, counter', domain)
    /\ UNCHANGED <<gu_pc, gu_teams, gu_total, gu_idx, gu_left, gu_users,
                   seen_emails, gu_email, base_local, domain, gu_ret, gu_uuid>>

\* lines 79-95: the loop is left; the email is recorded and the user appended
GuAppend ==
    /\ gu_pc = "dedupe"
    /\ unique_email \notin seen_emails
    /\ seen_emails' = SeenAdd(seen_emails, unique_email)
    /\ gu_users' = Append(gu_users, [user_id |-> Uuid("user", gu_uuid + 1),
                                     team_id |-> gu_teams[gu_idx],
                                     email   |-> unique_email])
    /\ gu_uuid' = gu_uuid + 1
    /\ gu_left' = gu_left - 1
    /\ gu_pc' = "profile"
    /\ UNCHANGED <<gu_teams, gu_total, gu_idx, gu_email, base_local, domain,
                   counter, unique_email, gu_ret>>

\* lines 97-101: shuffle, truncate and return
GuShuffleReturn ==
    /\ gu_pc = "shuffle"
    /\ gu_ret' \in ShuffleTruncate(gu_users, gu_total)
    /\ gu_pc' = "returned"
    /\ UNCHANGED <<gu_teams, gu_total, gu_idx, gu_left, gu_users, seen_emails,
                   gu_email, base_local, domain, counter, unique_email, gu_uuid>>

UsersLocalsIdle ==
    /\ gu_idx = 0
    /\ gu_left = 0
    /\ gu_users = << >>
    /\ seen_emails = {}
    /\ gu_email = NoEmail
    /\ base_local = NoEmail
    /\ domain = NoEmail
    /\ counter = 0
    /\ unique_email = NoEmail
    /\ gu_ret = << >>
    /\ gu_uuid = 0

UsersIdle ==
    /\ gu_pc = "idle"
    /\ gu_teams = << >>
    /\ gu_total = 0
    /\ UsersLocalsIdle

UsersCall ==
    /\ gu_pc = "call"
    /\ gu_teams \in {[i \in 1..n |-> Uuid("team", i)] : n \in 0..MaxTeams}
    /\ gu_total \in 0..MaxTotalUsers
    /\ UsersLocalsIdle


-----------------------------------------------------------------------------
(* main: the generators, reduced to identifiers and foreign keys, and
   insert_data *)

NoId == <<"none", 0>>

NoOrg == [org_id |-> NoId]

\* the table names of the insert_data calls of main, in the order of the calls
InsertOrderReversed ==
    <<"custom_fields", "attachments", "task_tags", "tags", "comments",
      "subtasks", "tasks", "sections", "projects", "users", "teams",
      "organizations">>

InsertOrderTasksFirst ==
    <<"organizations", "teams", "users", "tasks", "projects", "sections",
      "subtasks", "comments", "tags", "task_tags", "attachments",
      "custom_fields">>

InsertOrder ==
    <<"organizations", "teams", "users", "projects", "sections", "tasks",
      "subtasks", "comments", "tags", "task_tags", "attachments",
      "custom_fields">>

Tables == {InsertOrder[k] : k \in 1..Len(InsertOrder)}

\* the entity types in the order of the generator calls of main, lines 115-149
GenOrder ==
    <<"organizations", "teams", "users", "projects", "sections", "tasks",
      "subtasks", "comments", "tags", "task_tags", "attachments",
      "custom_fields">>

\* the position of main while it generates the records of a type
GenStep(table) == IF table = "organizations" THEN "organization" ELSE table

\* the positions of main in the order of its statements
RunSteps ==
    <<"setup">> \o [k \in 1..Len(GenOrder) |-> GenStep(GenOrder[k])]
        \o <<"insert", "close", "done">>

\* the second argument of each insert_data call of main
Batch(table) ==
    CASE table = "organizations" -> <<org>>
      [] table = "teams"         -> teams
      [] table = "users"         -> users
      [] table = "projects"      -> projects
      [] table = "sections"      -> sections
      [] table = "tasks"         -> tasks
      [] table = "subtasks"      -> subtasks
      [] table = "comments"      -> comments
      [] table = "tags"          -> tags
      [] table = "task_tags"     -> task_tags
      [] table = "attachments"   -> attachments
      [] table = "custom_fields" -> custom_fields

-----------------------------------------------------------------------------
(* weighted_choice and random.choices *)

\* A dictionary is the list of its (key, value) pairs in insertion order.
Keys(choices) == [k \in 1..Len(choices) |-> choices[k][1]]

Values(choices) == [k \in 1..Len(choices) |-> choices[k][2]]

\* itertools.accumulate(weights): the running sums
RECURSIVE Accumulate(_)
Accumulate(weights) ==
    IF weights = << >> THEN << >>
    ELSE LET front == Accumulate(SubSeq(weights, 1, Len(weights) - 1))
         IN  Append(front,
                    (IF front = << >> THEN 0 ELSE front[Len(front)])
                        + weights[Len(weights)])

\* bisect.bisect_right(a, x, lo, hi) on 0-based positions; a[mid] of the
\* Python list is a[mid + 1] of the sequence
RECURSIVE Bisect(_, _, _, _)
Bisect(a, x, lo, hi) ==
    IF lo < hi
    THEN LET mid == (lo + hi) \div 2
         IN  IF x < a[mid + 1] THEN Bisect(a, x, lo, mid)
                               ELSE Bisect(a, x, mid + 1, hi)
    ELSE lo

\* `if total <= 0.0: raise ValueError` of random.choices
TotalRejected(total) == total <= 0

\* random.choices(items, weights=weights, k=1)[0]: the items it can return;
\* random() * total lies in [0, total) and is compared with sums of integers,
\* so that only its integer part matters
RandomChoices(items, weights) ==
    LET cum_weights == Accumulate(weights)
        total       == cum_weights[Len(cum_weights)]
    IN  {items[Bisect(cum_weights, x, 0, Len(items) - 1) + 1] :
            x \in 0..(total - 1)}

\* `if not choices: raise ValueError`
ChoicesEmpty(choices) == choices = << >>

\* weighted_choice raises: on an empty dictionary, or inside random.choices
WeightedChoiceRaises(choices) ==
    \/ ChoicesEmpty(choices)
    \/ TotalRejected(Accumulate(Values(choices))[Len(choices)])

\* the items weighted_choice can return when it does not raise
WeightedChoice(choices) == RandomChoices(Keys(choices), Values(choices))

\* weighted_choice, lines 74-90
WcCall ==
    /\ wc_pc = "call"
    /\ IF WeightedChoiceRaises(wc_choices)
       THEN wc_pc' = "raised" /\ wc_ret' = wc_ret
       ELSE wc_pc' = "returned" /\ wc_ret' \in WeightedChoice(wc_choices)
    /\ UNCHANGED wc_choices

\* a second call with the same dictionary
WcAgain ==
    /\ wc_pc \in {"returned", "raised"}
    /\ wc_pc' = "call"
    /\ wc_ret' = "none"
    /\ UNCHANGED wc_choices

\* the dictionaries of the bounds: up to MaxItems items with the keys "a",
\* "b", ... in this order and weights in -1..MaxWeight
ItemNames == <<"a", "b", "c", "d", "e">>

ChoiceInputs ==
    UNION {[1..n -> (0 - 1)..MaxWeight] : n \in 0..MaxItems}

ChoiceIdle == wc_pc = "idle" /\ wc_choices = << >> /\ wc_ret = "none"

ChoiceCall ==
    /\ wc_pc = "call"
    /\ \E w \in ChoiceInputs :
          wc_choices = [k \in 1..Len(w) |-> <<ItemNames[k], w[k]>>]
    /\ wc_ret = "none"

-----------------------------------------------------------------------------
(* Helpers of the record generators: random, dates, text *)

\* no value is handed over: the step that comes next has not drawn yet
NoDraw == [step |-> "none"]

\* the place of a draw that a pass does not make
NotDrawn == 0 - 1

\* random.randint(low, high): the values it can return
Randint(low, high) == low..high

\* random.choice(items): the items it can return
Choices(items) == {items[k] : k \in 1..Len(items)}

\* the draws the model follows: of a random.randint the MaxDraw smallest
\* and the MaxDraw largest values of the range, of a random.choice the
\* first MaxPick positions of the list
FollowedValues(low, high) ==
    {v \in Randint(low, high) : v < low + MaxDraw \/ v > high - MaxDraw}

FollowedPositions(items) == 1..Min(Len(items), MaxPick)

\* random_date, lines 42-47: delta_days, the two ends being swapped when
\* start is after end
DeltaDays(start, end) ==
    Max(ToDate(start), ToDate(end)) - Min(ToDate(start), ToDate(end))

\* random_date with the offset counted from the later end
RandomDateFromEnd(start, end, offset) ==
    ToStr(Max(ToDate(start), ToDate(end)) + offset)

\* random_date(start, end), lines 26-50: the date it returns when
\* random.randint(0, delta_days) returns offset.  The two ends are swapped
\* when start is after end.
RandomDate(start, end, offset) ==
    ToStr(Min(ToDate(start), ToDate(end)) + offset)

\* the offsets of random_date(start, end) that the model follows
FollowedOffsets(start, end) == FollowedValues(0, DeltaDays(start, end))

\* ensure_chronology, lines 83-123, as a function: the dictionaries it can
\* return for the given arguments
EnsureChronology(created_at, due_date, completed_at) ==
    LET created == ToDate(created_at)
        due0    == OptDate(due_date)
        dues    == IF DueOutOfOrder(due0, created)
                   THEN {CorrectedDue(created, d) : d \in Offsets}
                   ELSE {due0}
    IN  UNION {
          LET reference == Reference(due, created)
              completed0 == OptDate(completed_at)
              completeds ==
                  IF CompletedOutOfOrder(completed0, reference)
                  THEN {CorrectedCompleted(reference, d) : d \in Offsets}
                  ELSE {completed0}
          IN  {[created_at   |-> ToStr(created),
                due_date     |-> OptStr(due),
                completed_at |-> OptStr(completed)] : completed \in completeds}
          : due \in dues}

\* A string is the sequence of its tokens; " " stands for white space and
\* "." for a full stop, and no other token starts or ends with either.
RECURSIVE LStrip(_, _)
LStrip(text, chars) ==
    IF text # << >> /\ text[1] \in chars THEN LStrip(Tail(text), chars)
    ELSE text

RECURSIVE RStrip(_, _)
RStrip(text, chars) ==
    IF text # << >> /\ text[Len(text)] \in chars
    THEN RStrip(SubSeq(text, 1, Len(text) - 1), chars)
    ELSE text

\* str.strip()
Strip(text) == RStrip(LStrip(text, {" "}), {" "})

\* llm_helper.random_sentence, lines 37-45
SentenceSamples ==
    << <<"Review pending tickets and update progress", ".">>,
       <<"Optimize the data pipeline for faster ETL", ".">>,
       <<"Schedule design review meeting with UX team", ".">>,
       <<"Prepare product roadmap for next sprint", ".">> >>

\* `random.choice(samples)` returning the k-th sentence
RandomSentence(k) == SentenceSamples[k]

\* what the content provider answers when its call returns
ProviderContent == <<" ", "Provider text", ".">>

\* what can become of the content provider call of generate_text: it is
\* not made when the provider is disabled
ProviderCalls(llm) == IF llm THEN {"returned", "raised"} ELSE {"not_called"}

\* generate_text, lines 91-103: how the call ends, given what becomes of the
\* content provider call and the sentence random_sentence draws where it is
\* called.  raises tells whether generate_text itself raises.
GenerateText(llm, call, sentence) ==
    IF ~llm
    THEN [raises |-> FALSE, call |-> "not_called",
          text |-> RandomSentence(sentence)]
    ELSE IF call = "returned"
    THEN [raises |-> FALSE, call |-> "returned",
          text |-> Strip(ProviderContent)]
    ELSE [raises |-> FALSE, call |-> "raised",
          text |-> RandomSentence(sentence)]

\* the sentences of random_sentence that the model follows, where the call
\* of generate_text gets to random_sentence
FollowedSentences(call) ==
    IF call = "returned" THEN {NotDrawn}
    ELSE FollowedPositions(SentenceSamples)

\* the `try: return generate_text(prompt) / except Exception: return
\* <fallback>` of the four _generate_* helpers: the text, given how
\* generate_text ended.  The fallback is made, and where it is a
\* random.choice drawn, in the except clause only.
TextOrFallback(outcome, fallback) ==
    IF outcome.raises THEN fallback ELSE outcome.text

\* load_prompts, lines 127-141
LoadPromptsRaises(file) == ~file.exists

RECURSIVE NonBlankStripped(_)
NonBlankStripped(lines) ==
    IF lines = << >> THEN << >>
    ELSE IF Strip(lines[1]) = << >> THEN NonBlankStripped(Tail(lines))
    ELSE <<Strip(lines[1])>> \o NonBlankStripped(Tail(lines))

LoadPrompts(file) == NonBlankStripped(file.lines)

\* the prompt files: missing, empty, blank lines only, and two templates
\* around a blank line
PromptFiles ==
    {[exists |-> FALSE, lines |-> << >>],
     [exists |-> TRUE,  lines |-> << >>],
     [exists |-> TRUE,  lines |-> << <<" ">>, << >> >>],
     [exists |-> TRUE,
      lines  |-> << <<" ", "Implement", " ", "{feature}", ".", " ">>,
                    <<" ">>,
                    <<"Fix", " ", "{component}", " ", "bug">> >>]}

NoFile == [exists |-> FALSE, lines |-> << >>]

-----------------------------------------------------------------------------
(* generate_tasks *)

\* the bounds of `random.randint(max(20, b // 2), min(150, b * 2))`
MinTasksFloor == 20

MaxTasksCeiling == 150

\* `max(1, total_task_limit // max(1, len(projects)))`
BaseTasksPerProject(limit, num_projects) ==
    Max(1, limit \div Max(1, num_projects))

NumTasksLow(base) == Max(MinTasksFloor, base \div 2)

NumTasksHigh(base) == Min(MaxTasksCeiling, base * 2)

\* `if len(tasks) >= total_task_limit`
LimitExceeded(count, limit) == count > limit

LimitReached(count, limit) == count >= limit

\* `return tasks` of line 114: where control goes when the limit is reached
AfterLimitBreak(pos) == [pc |-> "project", p |-> pos + 1, early |-> FALSE]

AfterLimit(pos) == [pc |-> "returned", p |-> pos, early |-> TRUE]

\* lines 84-94: `if not projects: raise ValueError`, load_prompts, which
\* raises FileNotFoundError when the prompt file is missing, and
\* base_tasks_per_project
GtEnter ==
    /\ gt_pc = "call"
    /\ IF gt_projects = << >>
       THEN /\ gt_pc' = "raised"
            /\ gt_exc' = "ValueError"
            /\ UNCHANGED <<gt_prompts, base_tasks_per_project, gt_p>>
       ELSE IF LoadPromptsRaises(gt_file)
       THEN /\ gt_pc' = "raised"
            /\ gt_exc' = "FileNotFoundError"
            /\ UNCHANGED <<gt_prompts, base_tasks_per_project, gt_p>>
       ELSE /\ gt_prompts' = LoadPrompts(gt_file)
            /\ base_tasks_per_project' =
                   BaseTasksPerProject(gt_limit, Len(gt_projects))
            /\ gt_p' = 1
            /\ gt_pc' = "project"
            /\ UNCHANGED gt_exc
    /\ UNCHANGED <<gt_projects, gt_limit, gt_file, num_tasks, gt_i, gt_drawn,
                   gt_tasks, gt_early>>

\* lines 97-104 and 155-156: the head of the project loop and the draw of
\* num_tasks; random.randint raises ValueError on an empty range
GtProject ==
    /\ gt_pc = "project"
    /\ IF gt_p > Len(gt_projects)
       THEN /\ gt_pc' = "returned"
            /\ UNCHANGED <<num_tasks, gt_i, gt_drawn, gt_exc>>
       ELSE IF NumTasksLow(base_tasks_per_project)
                   > NumTasksHigh(base_tasks_per_project)
       THEN /\ gt_pc' = "raised"
            /\ gt_exc' = "ValueError"
            /\ UNCHANGED <<num_tasks, gt_i, gt_drawn>>
       ELSE /\ \E n \in NumTasksLow(base_tasks_per_project)
                            .. NumTasksHigh(base_tasks_per_project) :
                 /\ num_tasks' = n
                 /\ gt_drawn' = Append(gt_drawn, n)
            /\ gt_i' = 0
            /\ gt_pc' = "task"
            /\ UNCHANGED gt_exc
    /\ UNCHANGED <<gt_projects, gt_limit, gt_file, gt_prompts,
                   base_tasks_per_project, gt_p, gt_tasks, gt_early>>

\* line 58: `random.choice(prompts)` raises IndexError on an empty list
TaskNameRaises(prompts) == prompts = << >>

\* lines 107-153: one iteration of the task loop: the limit check, then the
\* new task, whose name _generate_task_name draws from the prompts
GtTask ==
    /\ gt_pc = "task"
    /\ IF gt_i >= num_tasks
       THEN /\ gt_p' = gt_p + 1
            /\ gt_pc' = "project"
            /\ UNCHANGED <<gt_i, gt_tasks, gt_early, gt_exc>>
       ELSE IF LimitReached(Len(gt_tasks), gt_limit)
       THEN /\ gt_pc' = AfterLimit(gt_p).pc
            /\ gt_p' = AfterLimit(gt_p).p
            /\ gt_early' = AfterLimit(gt_p).early
            /\ UNCHANGED <<gt_i, gt_tasks, gt_exc>>
       ELSE IF TaskNameRaises(gt_prompts)
       THEN /\ gt_pc' = "raised"
            /\ gt_exc' = "IndexError"
            /\ UNCHANGED <<gt_p, gt_i, gt_tasks, gt_early>>
       ELSE /\ gt_tasks' = Append(gt_tasks,
                                  [task_id    |-> Uuid("task", Len(gt_tasks) + 1),
                                   project_id |-> gt_projects[gt_p]])
            /\ gt_i' = gt_i + 1
            /\ UNCHANGED <<gt_pc, gt_p, gt_early, gt_exc>>
    /\ UNCHANGED <<gt_projects, gt_limit, gt_file, gt_prompts,
                   base_tasks_per_project, num_tasks, gt_drawn>>

TasksLocalsIdle ==
    /\ gt_prompts = << >>
    /\ gt_exc = "none"
    /\ base_tasks_per_project = 0
    /\ gt_p = 0
    /\ num_tasks = 0
    /\ gt_i = 0
    /\ gt_drawn = << >>
    /\ gt_tasks = << >>
    /\ gt_early = FALSE

TasksIdle ==
    /\ gt_pc = "idle"
    /\ gt_projects = << >>
    /\ gt_limit = 0
    /\ gt_file = NoFile
    /\ TasksLocalsIdle

TasksCall ==
    /\ gt_pc = "call"
    /\ gt_projects \in {[i \in 1..n |-> Uuid("proj", i)] : n \in 0..MaxProjects}
    /\ gt_limit \in 0..MaxTaskLimit
    /\ gt_file \in PromptFiles
    /\ TasksLocalsIdle

-----------------------------------------------------------------------------
(* The record generators: generate_projects, generate_sections,
   generate_tasks (the fields of a task), generate_subtasks, generate_comments *)

\* a label (department, status) that is None
NoneLabel == "<None>"

\* the key of a label is missing from the dictionary
NoKey == "<no key>"

D(y, m, d) == [y |-> y, m |-> m, d |-> d]

\* company_scraper._DEPARTMENTS, returned by get_departments
Departments ==
    <<"Engineering", "Design", "Marketing", "Sales", "Customer Success",
      "Product", "HR", "Finance", "Support", "Operations">>

\* projects.py
ProjectNames ==
    << <<"Growth Analytics Platform">>, <<"Mobile Redesign Sprint">>,
       <<"Customer Portal">>, <<"Onboarding Revamp">>,
       <<"Marketing Automation Integration">>, <<"Internal API Gateway">>,
       <<"Security Audit 2024">>, <<"Employee Experience Dashboard">>,
       <<"Performance Reporting Tool">>, <<"Cloud Cost Optimizer">> >>

ProjectStatusWeights ==
    << <<"Active", 60>>, <<"Completed", 25>>, <<"On Hold", 10>>,
       <<"Not Started", 5>> >>

ProjectFallbackDescriptions ==
    << <<"Build a scalable internal solution aligned with business objectives",
         ".">>,
       <<"Improve system reliability and user experience across teams", ".">>,
       <<"Deliver a cross-functional initiative supporting company growth",
         ".">>,
       <<"Modernize workflows and infrastructure for long-term scalability",
         ".">> >>

\* sections.py
DefaultSections == <<"Backlog", "To Do", "In Progress", "In Review", "Done">>

EngineeringSections ==
    <<"Backlog", "Sprint", "In Progress", "Testing", "Review", "Released">>

MarketingDesignSections ==
    <<"Planning", "Design", "In Progress", "Review", "Published">>

\* tasks.py
PriorityWeights ==
    << <<"Low", 20>>, <<"Medium", 40>>, <<"High", 30>>, <<"Critical", 10>> >>

TaskStatusWeights ==
    << <<"To Do", 25>>, <<"In Progress", 35>>, <<"In Review", 20>>,
       <<"Done", 20>> >>

TechWords ==
    <<"authentication", "billing", "onboarding", "analytics", "dashboard",
      "notifications", "permissions", "search", "performance", "reporting">>

PlaceholderKeys ==
    {"{feature}", "{product}", "{service}", "{component}", "{functionality}"}

\* subtasks.py
SubtaskStatusWeights ==
    << <<"To Do", 35>>, <<"In Progress", 30>>, <<"Done", 35>> >>

FallbackSubtaskNames ==
    << <<"Write unit tests">>, <<"Review PR changes">>,
       <<"Document feature behavior">>, <<"Deploy to staging">>,
       <<"Conduct code review">>, <<"Fix bug reports">>,
       <<"Prepare release notes">>, <<"Sync with QA">>,
       <<"Validate integration">> >>

\* comments.py.  A character outside ASCII is the token of its code point:
\* the right single quotation mark and the em dash of lines 24 and 26.
RightQuote == "U+2019"

EmDash == "U+2014"

FallbackComments ==
    << <<"Let's revisit this after the review meeting", ".">>,
       <<"Great progress here!">>,
       <<"Need to confirm details with the client", ".">>,
       <<"I", RightQuote, "ll take this up tomorrow", ".">>,
       <<"Updated the spec doc for clarity", ".">>,
       <<"Ready for testing ", EmDash, " please review", ".">>,
       <<"Merging changes now", ".">>,
       <<"Can someone verify the bug report?">>,
       <<"Good catch! Fixing it now", ".">>,
       <<"Need approval from design before proceeding", ".">> >>

\* str.lower() on the tokens of a subtask name
LowerToken(t) ==
    CASE t = "Write unit tests"          -> "write unit tests"
      [] t = "Review PR changes"         -> "review pr changes"
      [] t = "Document feature behavior" -> "document feature behavior"
      [] t = "Deploy to staging"         -> "deploy to staging"
      [] t = "Conduct code review"       -> "conduct code review"
      [] t = "Fix bug reports"           -> "fix bug reports"
      [] t = "Prepare release notes"     -> "prepare release notes"
      [] t = "Sync with QA"              -> "sync with qa"
      [] t = "Validate integration"      -> "validate integration"
      [] OTHER                           -> t

Lower(text) == [k \in 1..Len(text) |-> LowerToken(text[k])]

\* tasks._render_prompt, lines 49-54: every occurrence of a placeholder is
\* replaced by the word drawn for that placeholder
RenderPrompt(template, words) ==
    [k \in 1..Len(template) |->
        IF template[k] \in PlaceholderKeys THEN words[template[k]]
        ELSE template[k]]

\* tasks._generate_task_name, lines 57-61: `name.strip().rstrip(".")` of
\* the template at the position random.choice(prompts) takes, rendered with
\* the word at the position random.choice(_TECH_WORDS) takes for each key
GenerateTaskName(prompts, template, words) ==
    RStrip(Strip(RenderPrompt(prompts[template],
                              [key \in PlaceholderKeys |->
                                  TechWords[words[key]]])),
           {"."})

\* the static fallback texts of the _generate_description helpers
TaskFallback(task_name) == <<"Complete the task: ">> \o task_name \o <<".">>

SubtaskFallback(subtask_name, parent_name) ==
    <<"Subtask to ">> \o Lower(subtask_name) \o <<" for parent task: ">>
        \o parent_name \o <<".">>

\* `if users and random_bool(0.8): random.choice(users)["user_id"]`
Assignees(us) == {NoId} \cup {us[k].user_id : k \in 1..Len(us)}

NoRec == [kind |-> "none"]

\* ---- generate_projects ----

\* `if status in {"Completed", "Active"}`
HasEndDate(status) == status \in {"Completed", "Active"}

\* `random.randint(3, 12)`
MinProjects == 3

MaxProjectsPerTeam == 12

\* lines 70-75: `if not teams: raise ValueError`
GpEnter ==
    /\ r_pc = "call"
    /\ r_gen = "projects"
    /\ IF r_parents = << >>
       THEN r_pc' = "raised" /\ r_exc' = "ValueError"
       ELSE r_pc' = "team" /\ r_exc' = r_exc
    /\ UNCHANGED <<recArgs, r_prompts, r_department, r_rec, r_count, r_call>>
    /\ UNCHANGED attVars

\* lines 78-82: the head of the team loop: `team.get("department") or
\* random.choice(get_departments())`, `num_projects = randint(3, 12)`
GpTeam ==
    /\ r_pc = "team"
    /\ r_gen = "projects"
    /\ r_department' \in (IF r_parents[1].department # NoneLabel
                          THEN {r_parents[1].department}
                          ELSE Choices(Departments))
    /\ \E num_projects \in Randint(MinProjects, MaxProjectsPerTeam) :
           /\ a_num' = num_projects
           /\ a_left' = num_projects
    /\ r_pc' = "loop"
    /\ UNCHANGED <<recArgs, r_prompts, r_rec, r_count, r_call, r_exc>>
    /\ UNCHANGED <<a_sel, a_used, a_name>>

\* the draws of one iteration of the project loop that the model follows
GpRandom ==
    /\ r_pc = "loop"
    /\ r_gen = "projects"
    /\ a_left > 0
    /\ rnd = NoDraw
    /\ \E project_name \in FollowedPositions(ProjectNames),
          status \in WeightedChoice(ProjectStatusWeights),
          created \in FollowedOffsets(D(2021, 1, 1), D(2025, 1, 1)),
          call \in ProviderCalls(r_llm) :
       LET created_at == RandomDate(D(2021, 1, 1), D(2025, 1, 1), created)
       IN  \E start \in FollowedOffsets(created_at, D(2025, 6, 30)) :
           LET start_date == RandomDate(created_at, D(2025, 6, 30), start)
           IN  \E end \in (IF HasEndDate(status)
                           THEN FollowedOffsets(start_date, D(2025, 12, 31))
                           ELSE {NotDrawn}),
                  sentence \in FollowedSentences(call) :
                   rnd' = [step         |-> "project",
                           project_name |-> project_name,
                           status       |-> status,
                           created_at   |-> created,
                           start_date   |-> start,
                           end_date     |-> end,
                           call         |-> call,
                           sentence     |-> sentence,
                           fallback     |-> NotDrawn]

\* lines 85-126: one iteration of the project loop of a team
GpBody ==
    /\ r_pc = "loop"
    /\ r_gen = "projects"
    /\ a_left > 0
    /\ a_left' = a_left - 1
    /\ UNCHANGED <<a_sel, a_num, a_used, a_name>>
    /\ rnd.step = "project"
    /\ rnd' = NoDraw
    /\ LET team         == r_parents[1]
           project_name == ProjectNames[rnd.project_name]
           status       == rnd.status
           created_at   == RandomDate(D(2021, 1, 1), D(2025, 1, 1),
                                      rnd.created_at)
           start_date   == RandomDate(created_at, D(2025, 6, 30),
                                      rnd.start_date)
           end_date     == IF HasEndDate(status)
                           THEN RandomDate(start_date, D(2025, 12, 31),
                                           rnd.end_date)
                           ELSE NoneStr
           text         == GenerateText(r_llm, rnd.call, rnd.sentence)
       IN  \E dates \in EnsureChronology(created_at, end_date, NoneStr) :
               /\ r_rec' = [kind        |-> "project",
                            project_id  |-> Uuid("proj", r_count + 1),
                            team_id     |-> team.team_id,
                            department  |-> r_department,
                            name        |-> project_name,
                            description |->
                                TextOrFallback(
                                    text,
                                    ProjectFallbackDescriptions[rnd.fallback]),
                            status      |-> status,
                            start_date  |-> start_date,
                            end_date    |-> dates.due_date,
                            created_at  |-> created_at]
               /\ r_call' = text.call
    /\ r_count' = r_count + 1
    /\ r_pc' = "appended"
    /\ UNCHANGED <<recArgs, r_prompts, r_department, r_exc>>

\* lines 85-89 and 128-129: the head of the project loop once more, or the
\* loops are over (the list has one team) and the projects are returned
GpNext ==
    /\ r_pc = "appended"
    /\ r_gen = "projects"
    /\ IF a_left > 0
       THEN /\ r_pc' = "loop"
            /\ r_rec' = NoRec
            /\ r_call' = "none"
       ELSE /\ r_pc' = "returned"
            /\ UNCHANGED <<r_rec, r_call>>
    /\ UNCHANGED <<recArgs, r_prompts, r_department, r_count, r_exc>>
    /\ UNCHANGED attVars

\* ---- generate_tasks: the fields of a task ----

\* `completed = status == "Done"`
IsCompletedNever(status) == FALSE

IsCompleted(status) == status = "Done"

\* `total_task_limit: int = 40000`
DefaultTotalTaskLimit == 40000

\* lines 84-94: `if not projects: raise ValueError`, then load_prompts
GtrEnter ==
    /\ r_pc = "call"
    /\ r_gen = "tasks"
    /\ IF r_parents = << >>
       THEN r_pc' = "raised" /\ r_exc' = "ValueError" /\ r_prompts' = r_prompts
       ELSE IF LoadPromptsRaises(r_file)
       THEN /\ r_pc' = "raised"
            /\ r_exc' = "FileNotFoundError"
            /\ r_prompts' = r_prompts
       ELSE /\ r_pc' = "project"
            /\ r_exc' = r_exc
            /\ r_prompts' = LoadPrompts(r_file)
    /\ UNCHANGED <<recArgs, r_department, r_rec, r_count, r_call>>
    /\ UNCHANGED attVars

\* lines 97-104: the head of the project loop; random.randint raises
\* ValueError on an empty range
GtrProject ==
    /\ r_pc = "project"
    /\ r_gen = "tasks"
    /\ LET base == BaseTasksPerProject(r_limit, Len(r_parents))
       IN  IF NumTasksLow(base) > NumTasksHigh(base)
           THEN /\ r_pc' = "raised"
                /\ r_exc' = "ValueError"
                /\ UNCHANGED <<a_num, a_left>>
           ELSE /\ r_pc' = "loop"
                /\ r_exc' = r_exc
                /\ \E n \in NumTasksLow(base)..NumTasksHigh(base) :
                       /\ a_num' = n
                       /\ a_left' = n
    /\ UNCHANGED <<recArgs, r_prompts, r_department, r_rec, r_count, r_call>>
    /\ UNCHANGED <<a_sel, a_used, a_name>>

\* the draws of one iteration of the task loop that the model follows,
\* where the iteration gets to them
GtrRandom ==
    /\ r_pc = "loop"
    /\ r_gen = "tasks"
    /\ a_left > 0
    /\ ~LimitReached(r_count, r_limit)
    /\ ~TaskNameRaises(r_prompts)
    /\ rnd = NoDraw
    /\ \E template \in FollowedPositions(r_prompts),
          words \in [PlaceholderKeys -> FollowedPositions(TechWords)],
          status \in WeightedChoice(TaskStatusWeights),
          priority \in WeightedChoice(PriorityWeights),
          created \in FollowedOffsets(D(2021, 1, 1), D(2025, 1, 1)),
          assignee_id \in Assignees(r_users),
          call \in ProviderCalls(r_llm) :
       LET created_at == RandomDate(D(2021, 1, 1), D(2025, 1, 1), created)
       IN  \E due \in FollowedOffsets(created_at, D(2025, 12, 31)) :
           LET due_date == RandomDate(created_at, D(2025, 12, 31), due)
           IN  \E completed \in
                      (IF IsCompleted(status)
                       THEN FollowedOffsets(due_date, D(2025, 12, 31))
                       ELSE {NotDrawn}),
                  sentence \in FollowedSentences(call) :
                   rnd' = [step         |-> "task",
                           template     |-> template,
                           words        |-> words,
                           status       |-> status,
                           priority     |-> priority,
                           created_at   |-> created,
                           due_date     |-> due,
                           completed_at |-> completed,
                           assignee_id  |-> assignee_id,
                           call         |-> call,
                           sentence     |-> sentence]

\* lines 107-153: one iteration of the task loop of a project: the return
\* of line 114 once the limit is reached, the IndexError random.choice
\* raises on an empty list of prompts, or a task
GtrBody ==
    /\ r_pc = "loop"
    /\ r_gen = "tasks"
    /\ a_left > 0
    /\ rnd' = NoDraw
    /\ IF LimitReached(r_count, r_limit)
       THEN /\ r_pc' = "returned"
            /\ UNCHANGED <<r_rec, r_count, r_call, r_exc, a_left>>
       ELSE IF TaskNameRaises(r_prompts)
       THEN /\ r_pc' = "raised"
            /\ r_exc' = "IndexError"
            /\ UNCHANGED <<r_rec, r_count, r_call, a_left>>
       ELSE /\ rnd.step = "task"
            /\ LET project      == r_parents[1]
                   task_name    == GenerateTaskName(r_prompts, rnd.template,
                                                    rnd.words)
                   status       == rnd.status
                   created_at   == RandomDate(D(2021, 1, 1), D(2025, 1, 1),
                                              rnd.created_at)
                   due_date     == RandomDate(created_at, D(2025, 12, 31),
                                              rnd.due_date)
                   completed_at == IF IsCompleted(status)
                                   THEN RandomDate(due_date, D(2025, 12, 31),
                                                   rnd.completed_at)
                                   ELSE NoneStr
                   text         == GenerateText(r_llm, rnd.call, rnd.sentence)
               IN  \E dates \in EnsureChronology(created_at, due_date,
                                                 completed_at) :
                       /\ r_rec' = [kind         |-> "task",
                                    task_id      |-> Uuid("task", r_count + 1),
                                    project_id   |-> project.project_id,
                                    assignee_id  |-> rnd.assignee_id,
                                    name         |-> task_name,
                                    description  |->
                                        TextOrFallback(
                                            text, TaskFallback(task_name)),
                                    priority     |-> rnd.priority,
                                    status       |-> status,
                                    completed    |-> IsCompleted(status),
                                    created_at   |-> dates.created_at,
                                    due_date     |-> dates.due_date,
                                    completed_at |-> dates.completed_at]
                       /\ r_call' = text.call
            /\ r_count' = r_count + 1
            /\ a_left' = a_left - 1
            /\ r_pc' = "appended"
            /\ r_exc' = r_exc
    /\ UNCHANGED <<recArgs, r_prompts, r_department>>
    /\ UNCHANGED <<a_sel, a_num, a_used, a_name>>

\* lines 107-111 and 155-156: the head of the task loop once more, or the
\* loops are over (the list has one project) and the tasks are returned
GtrNext ==
    /\ r_pc = "appended"
    /\ r_gen = "tasks"
    /\ IF a_left > 0
       THEN /\ r_pc' = "loop"
            /\ r_rec' = NoRec
            /\ r_call' = "none"
       ELSE /\ r_pc' = "returned"
            /\ UNCHANGED <<r_rec, r_call>>
    /\ UNCHANGED <<recArgs, r_prompts, r_department, r_count, r_exc>>
    /\ UNCHANGED attVars

\* ---- generate_subtasks ----

\* `parent.get("status", "To Do")`: the default stands in for a missing
\* key, and a status that is None stays None
ParentStatus(parent) ==
    IF parent.status = NoKey THEN "To Do" ELSE parent.status

\* `if not parent_created or not parent_due: continue`
ParentLacksDates(parent) ==
    parent.created_at = NoneStr \/ parent.due_date = NoneStr

\* `"Done" if parent_status == "Done" else weighted_choice(_STATUS_WEIGHTS)`
SubtaskStatuses(parent_status) ==
    IF parent_status = "Done" THEN {"Done"}
    ELSE WeightedChoice(SubtaskStatusWeights)

\* `completed = subtask_status == "Done"`
SubtaskCompleted(subtask_status) == subtask_status = "Done"

\* `max_subtasks = 2 if parent_status == "Done" else 5`; 5 for every parent
MaxSubtasksAny(parent_status) == 5

MaxSubtasks(parent_status) == IF parent_status = "Done" THEN 2 ELSE 5

\* lines 64-69: `if not tasks: return []`
GstEnter ==
    /\ r_pc = "call"
    /\ r_gen = "subtasks"
    /\ r_pc' = IF r_parents = << >> THEN "returned" ELSE "task"
    /\ UNCHANGED <<recArgs, r_prompts, r_department, r_rec, r_count, r_call, r_exc>>
    /\ UNCHANGED attVars

\* lines 71-84: the draw that selects the task and the head of the parent
\* loop.  A task that is not selected or lacks a date gets no iteration, and
\* the loop over the one task of the list is over; or num_subtasks is drawn.
GstSelect ==
    /\ r_pc = "task"
    /\ r_gen = "subtasks"
    /\ \E selected \in BOOLEAN,
          num_subtasks \in 1..MaxSubtasks(ParentStatus(r_parents[1])) :
           /\ a_sel' = selected
           /\ IF ~selected \/ ParentLacksDates(r_parents[1])
              THEN /\ r_pc' = "returned"
                   /\ UNCHANGED <<a_num, a_left>>
              ELSE /\ r_pc' = "loop"
                   /\ a_num' = num_subtasks
                   /\ a_left' = num_subtasks
    /\ UNCHANGED <<recArgs, r_prompts, r_department, r_rec, r_count, r_call, r_exc>>
    /\ UNCHANGED <<a_used, a_name>>

\* the head of the subtask loop: once more, or the loops are over and the
\* subtasks are returned (lines 132-133)
GstNext ==
    /\ r_pc = "appended"
    /\ r_gen = "subtasks"
    /\ IF a_left > 0
       THEN /\ r_pc' = "loop"
            /\ r_rec' = NoRec
            /\ r_call' = "none"
       ELSE /\ r_pc' = "returned"
            /\ UNCHANGED <<r_rec, r_call>>
    /\ UNCHANGED <<recArgs, r_prompts, r_department, r_count, r_exc>>
    /\ UNCHANGED attVars

\* the draws of one iteration of the subtask loop that the model follows
GstRandom ==
    /\ r_pc = "loop"
    /\ r_gen = "subtasks"
    /\ a_left > 0
    /\ rnd = NoDraw
    /\ LET parent == r_parents[1]
       IN  \E status \in SubtaskStatuses(ParentStatus(parent)),
              created \in FollowedOffsets(parent.created_at, parent.due_date),
              assignee_id \in Assignees(r_users),
              name \in FollowedPositions(FallbackSubtaskNames),
              call \in ProviderCalls(r_llm) :
           LET created_at == RandomDate(parent.created_at, parent.due_date,
                                        created)
           IN  \E due \in FollowedOffsets(created_at, parent.due_date) :
               LET due_date == RandomDate(created_at, parent.due_date, due)
               IN  \E completed \in
                          (IF SubtaskCompleted(status)
                           THEN FollowedOffsets(created_at, due_date)
                           ELSE {NotDrawn}),
                      sentence \in FollowedSentences(call) :
                       rnd' = [step         |-> "subtask",
                               status       |-> status,
                               created_at   |-> created,
                               due_date     |-> due,
                               completed_at |-> completed,
                               assignee_id  |-> assignee_id,
                               name         |-> name,
                               call         |-> call,
                               sentence     |-> sentence]

\* lines 87-130: one iteration of the subtask loop
GstBody ==
    /\ r_pc = "loop"
    /\ r_gen = "subtasks"
    /\ a_left > 0
    /\ a_left' = a_left - 1
    /\ UNCHANGED <<a_sel, a_num, a_used, a_name>>
    /\ rnd.step = "subtask"
    /\ rnd' = NoDraw
    /\ LET parent         == r_parents[1]
           subtask_status == rnd.status
           created_at     == RandomDate(parent.created_at, parent.due_date,
                                        rnd.created_at)
           due_date       == RandomDate(created_at, parent.due_date,
                                        rnd.due_date)
           completed_at   == IF SubtaskCompleted(subtask_status)
                             THEN RandomDate(created_at, due_date,
                                             rnd.completed_at)
                             ELSE NoneStr
           name           == FallbackSubtaskNames[rnd.name]
           text           == GenerateText(r_llm, rnd.call, rnd.sentence)
       IN  \E dates \in EnsureChronology(created_at, due_date,
                                         completed_at) :
               /\ r_rec' = [kind           |-> "subtask",
                            subtask_id     |-> Uuid("sub", r_count + 1),
                            parent_task_id |-> parent.task_id,
                            assignee_id    |-> rnd.assignee_id,
                            name           |-> name,
                            description    |->
                                TextOrFallback(
                                    text,
                                    SubtaskFallback(name, parent.name)),
                            status         |-> subtask_status,
                            completed      |->
                                SubtaskCompleted(subtask_status),
                            created_at     |-> dates.created_at,
                            due_date       |-> dates.due_date,
                            completed_at   |-> dates.completed_at]
               /\ r_call' = text.call
    /\ r_count' = r_count + 1
    /\ r_pc' = "appended"
    /\ UNCHANGED <<recArgs, r_prompts, r_department, r_exc>>

\* ---- generate_comments ----

\* `random.randint(1, 6)`
MaxComments == 6

\* lines 53-58: `if not tasks or not users: return []`
GcEnter ==
    /\ r_pc = "call"
    /\ r_gen = "comments"
    /\ r_pc' = IF r_parents = << >> \/ r_users = << >> THEN "returned"
               ELSE "task"
    /\ UNCHANGED <<recArgs, r_prompts, r_department, r_rec, r_count, r_call, r_exc>>
    /\ UNCHANGED attVars

\* lines 61-73: the draw that selects the task and the head of the task
\* loop.  A task that is not selected or lacks a date gets no comment, and
\* the loop over the one task of the list is over; or num_comments is drawn.
GcSelect ==
    /\ r_pc = "task"
    /\ r_gen = "comments"
    /\ \E selected \in BOOLEAN, num_comments \in 1..MaxComments :
           /\ a_sel' = selected
           /\ IF ~selected \/ ParentLacksDates(r_parents[1])
              THEN /\ r_pc' = "returned"
                   /\ UNCHANGED <<a_num, a_left>>
              ELSE /\ r_pc' = "loop"
                   /\ a_num' = num_comments
                   /\ a_left' = num_comments
    /\ UNCHANGED <<recArgs, r_prompts, r_department, r_rec, r_count, r_call, r_exc>>
    /\ UNCHANGED <<a_used, a_name>>

\* the draws of one iteration of the comment loop that the model follows
GcRandom ==
    /\ r_pc = "loop"
    /\ r_gen = "comments"
    /\ a_left > 0
    /\ rnd = NoDraw
    /\ \E user \in 1..Len(r_users),
          comment_created \in FollowedOffsets(r_parents[1].created_at,
                                              r_parents[1].due_date),
          call \in ProviderCalls(r_llm),
          is_edited \in BOOLEAN :
       \E sentence \in FollowedSentences(call) :
           rnd' = [step            |-> "comment",
                   user            |-> user,
                   comment_created |-> comment_created,
                   call            |-> call,
                   sentence        |-> sentence,
                   fallback        |-> NotDrawn,
                   is_edited       |-> is_edited]

\* lines 76-100: one iteration of the comment loop of a task
GcBody ==
    /\ r_pc = "loop"
    /\ r_gen = "comments"
    /\ a_left > 0
    /\ a_left' = a_left - 1
    /\ UNCHANGED <<a_sel, a_num, a_used, a_name>>
    /\ rnd.step = "comment"
    /\ rnd' = NoDraw
    /\ LET task            == r_parents[1]
           user            == r_users[rnd.user]
           comment_created == RandomDate(task.created_at, task.due_date,
                                         rnd.comment_created)
           text            == GenerateText(r_llm, rnd.call, rnd.sentence)
       IN  \E dates \in EnsureChronology(task.created_at, comment_created,
                                         NoneStr) :
               /\ r_rec' = [kind       |-> "comment",
                            comment_id |-> Uuid("com", r_count + 1),
                            task_id    |-> task.task_id,
                            user_id    |-> user.user_id,
                            text       |->
                                TextOrFallback(
                                    text, FallbackComments[rnd.fallback]),
                            created_at |-> dates.due_date,
                            is_edited  |-> rnd.is_edited]
               /\ r_call' = text.call
    /\ r_count' = r_count + 1
    /\ r_pc' = "appended"
    /\ UNCHANGED <<recArgs, r_prompts, r_department, r_exc>>

\* lines 76-80 and 102-103: the head of the comment loop once more, or the
\* loops are over (the list has one task) and the comments are returned
GcNext ==
    /\ r_pc = "appended"
    /\ r_gen = "comments"
    /\ IF a_left > 0
       THEN /\ r_pc' = "loop"
            /\ r_rec' = NoRec
            /\ r_call' = "none"
       ELSE /\ r_pc' = "returned"
            /\ UNCHANGED <<r_rec, r_call>>
    /\ UNCHANGED <<recArgs, r_prompts, r_department, r_count, r_exc>>
    /\ UNCHANGED attVars

\* ---- generate_sections ----

\* _choose_section_template, lines 45-51
ChooseSectionTemplate(department) ==
    IF department \in {"Engineering", "Product"} THEN EngineeringSections
    ELSE IF department \in {"Marketing", "Design"}
    THEN MarketingDesignSections
    ELSE DefaultSections

\* lines 80-85: the values num_sections can take
NumSections(department) ==
    IF department \in {"Engineering", "Product"} THEN 5..6
    ELSE IF department \in {"Marketing", "Design"} THEN 4..5
    ELSE 3..5

\* `template[:num_sections]`
PrefixFromSecond(template, num_sections) ==
    SubSeq(template, 2, Min(num_sections + 1, Len(template)))

Prefix(template, num_sections) ==
    SubSeq(template, 1, Min(num_sections, Len(template)))

\* lines 65-70: `if not projects: return []`
GsecEnter ==
    /\ r_pc = "call"
    /\ r_gen = "sections"
    /\ r_pc' = IF r_parents = << >> THEN "returned" ELSE "loop"
    /\ UNCHANGED <<recArgs, r_prompts, r_department, r_rec, r_count, r_call, r_exc>>

\* lines 73-140: the sections of one project.  The created_at of a section
\* is random_date(project_created, project_created).
GsecProject ==
    /\ r_pc = "loop"
    /\ r_gen = "sections"
    /\ LET project == r_parents[1]
           template == ChooseSectionTemplate(project.department)
       IN  \E num_sections \in NumSections(project.department) :
           LET chosen_sections == Prefix(template, num_sections)
           IN  \E created \in [1..Len(chosen_sections) ->
                                 IF project.created_at # NoneStr
                                 THEN {RandomDate(project.created_at,
                                                  project.created_at, o) :
                                          o \in Randint(0, 0)}
                                 ELSE {NoneStr}] :
                  /\ r_rec' =
                         [idx \in 1..Len(chosen_sections) |->
                             [kind       |-> "section",
                              section_id |-> Uuid("sec", r_count + idx),
                              project_id |-> project.project_id,
                              name       |-> chosen_sections[idx],
                              position   |-> idx,
                              created_at |-> created[idx]]]
                  /\ r_count' = r_count + Len(chosen_sections)
    /\ r_pc' = "appended"
    /\ UNCHANGED <<recArgs, r_prompts, r_department, r_call, r_exc>>

\* lines 142-143: the loop over the one project of the list is over
GsecReturn ==
    /\ r_pc = "appended"
    /\ r_gen = "sections"
    /\ r_pc' = "returned"
    /\ UNCHANGED <<recArgs, r_prompts, r_department, r_rec, r_count, r_call, r_exc>>

\* ---- the calls of the generators ----

ParentDates == {D(2023, 3, 1), D(2023, 3, 10)}

\* the teams passed to generate_projects
TeamInputs ==
    [team_id    : {Uuid("team", 1)},
     department : {Departments[k] : k \in 1..Len(Departments)} \cup {NoneLabel},
     created_at : ParentDates]

\* the projects passed to generate_sections and generate_tasks
ProjectInputs ==
    [project_id : {Uuid("proj", 1)},
     department : {Departments[k] : k \in 1..Len(Departments)}
                      \cup {"Legal", NoneLabel},
     name       : {ProjectNames[1]},
     created_at : ParentDates \cup {NoneStr}]

\* the tasks passed to generate_subtasks and generate_comments
TaskInputs ==
    [task_id    : {Uuid("task", 1)},
     name       : { <<"Implement", " ", "authentication">> },
     status     : {"To Do", "In Progress", "In Review", "Done", NoneLabel,
                    NoKey},
     created_at : ParentDates \cup {NoneStr},
     due_date   : ParentDates \cup {NoneStr}]

\* the tasks handed to generate_attachments: one name is a plain name, the
\* other has a version number and a final full stop
AttachmentTaskInputs ==
    [task_id    : {Uuid("task", 1)},
     name       : { <<"Implement", " ", "authentication">>,
                    <<"Release", " ", "v1", ".", "2", ".">> },
     status     : {"To Do"},
     created_at : ParentDates \cup {NoneStr},
     due_date   : ParentDates \cup {NoneStr}]

UserInputs == {<< >>, <<[user_id |-> Uuid("user", 1)]>>}

Lists(parents) == {<< >>} \cup {<<p>> : p \in parents}

RecLocalsIdle ==
    /\ r_prompts = << >>
    /\ r_department = NoneLabel
    /\ r_rec = NoRec
    /\ r_count = 0
    /\ r_call = "none"
    /\ r_exc = "none"

RecIdle ==
    /\ r_pc = "idle"
    /\ r_gen = "none"
    /\ r_parents = << >>
    /\ r_users = << >>
    /\ r_limit = 0
    /\ r_llm = FALSE
    /\ r_file = NoFile
    /\ RecLocalsIdle

\* the total_task_limit passed to generate_tasks: with one project the
\* range of num_tasks is empty below 10 and from 302 on
RecTaskLimits == {RecTaskLimit - 1, RecTaskLimit, DefaultTotalTaskLimit}

RecCall ==
    /\ r_pc = "call"
    /\ \/ /\ r_gen = "projects"
          /\ r_parents \in Lists(TeamInputs)
          /\ r_users = << >>
          /\ r_limit = 0
          /\ r_llm \in BOOLEAN
          /\ r_file = NoFile
       \/ /\ r_gen = "sections"
          /\ r_parents \in Lists(ProjectInputs)
          /\ r_users = << >>
          /\ r_limit = 0
          /\ r_llm = FALSE
          /\ r_file = NoFile
       \/ /\ r_gen = "tasks"
          /\ r_parents \in Lists({p \in ProjectInputs :
                                     p.department = "Engineering"})
          /\ r_users \in UserInputs
          /\ r_limit \in RecTaskLimits
          /\ r_llm \in BOOLEAN
          /\ r_file \in PromptFiles
       \/ /\ r_gen \in {"subtasks", "comments"}
          /\ r_parents \in Lists(TaskInputs)
          /\ r_users \in UserInputs
          /\ r_limit = 0
          /\ r_llm \in BOOLEAN
          /\ r_file = NoFile
       \/ /\ r_gen = "attachments"
          /\ r_parents \in Lists(AttachmentTaskInputs)
          /\ r_users = << >>
          /\ r_limit = 0
          /\ r_llm = FALSE
          /\ r_file = NoFile
    /\ RecLocalsIdle

-----------------------------------------------------------------------------
(* Two runs of generate_teams with the same arguments: the seeded generator
   of the random module against uuid.uuid4 *)

\* the value of the stream at a position
RawAt(stream, pos) == IF pos <= Len(stream) THEN stream[pos] ELSE 0

\* random.choice and random.randint take a number below n from the stream:
\* they read values and discard every value that is not below n.  The
\* number of values read after the first pos values of the stream, and the
\* value kept.
RECURSIVE ReadsBelow(_, _, _)
ReadsBelow(stream, pos, n) ==
    IF RawAt(stream, pos + 1) < n THEN 1
    ELSE 1 + ReadsBelow(stream, pos + 1, n)

RandbelowAt(stream, pos, n) == RawAt(stream, pos + ReadsBelow(stream, pos, n))

\* random.choice(items) and random.randint(0, n), as functions of the stream
\* and of the number of values read before
ChoiceAt(items, stream, pos) == items[RandbelowAt(stream, pos, Len(items)) + 1]

RandintAt(n, stream, pos) == RandbelowAt(stream, pos, n + 1)

\* random_date(start, end), as a function of the stream
RandomDateAt(start, end, stream, pos) ==
    RandomDate(start, end, RandintAt(DeltaDays(start, end), stream, pos))

\* uuid.uuid4(): a value read from the operating system's entropy, which
\* random.seed does not touch
Uuid4Values == 1..MaxEntropy

\* `department_counts[department]` after its increment
TeamNumber(out, department) ==
    Cardinality({k \in 1..Len(out) : out[k].department = department}) + 1

\* teams.py, line 51: random.seed(42) puts the generator back at the start
\* of the stream of the seed
RtSeed ==
    /\ d_pc = "call"
    /\ d_pos' = 0
    /\ d_pc' = "loop"
    /\ UNCHANGED <<d_stream, d_num, d_run, d_out>>

\* lines 61-83: one team of the current run
RtTeam ==
    /\ d_pc = "loop"
    /\ Len(d_out[d_run]) < d_num
    /\ LET department == ChoiceAt(Departments, d_stream, d_pos)
           chosen == d_pos + ReadsBelow(d_stream, d_pos, Len(Departments))
           delta_days == DeltaDays(D(2020, 1, 1), D(2024, 12, 31))
       IN  /\ \E uid \in Uuid4Values :
                 d_out' = [d_out EXCEPT ![d_run] = Append(@,
                     [team_id     |-> Uuid("team", uid),
                      org_id      |-> Uuid("org", 1),
                      department  |-> department,
                      team_number |-> TeamNumber(d_out[d_run], department),
                      created_at  |-> RandomDateAt(D(2020, 1, 1),
                                                   D(2024, 12, 31),
                                                   d_stream, chosen)])]
           /\ d_pos' = chosen + ReadsBelow(d_stream, chosen, delta_days + 1)
    /\ UNCHANGED <<d_pc, d_stream, d_num, d_run>>

\* lines 85-86: the run returns its teams; the second run starts after the
\* first
RtReturn ==
    /\ d_pc = "loop"
    /\ Len(d_out[d_run]) = d_num
    /\ IF d_run = 1
       THEN d_run' = 2 /\ d_pc' = "call"
       ELSE d_run' = d_run /\ d_pc' = "done"
    /\ UNCHANGED <<d_stream, d_num, d_pos, d_out>>

RunsIdle ==
    /\ d_pc = "idle"
    /\ d_stream = << >>
    /\ d_num = 0
    /\ d_run = 0
    /\ d_pos = 0
    /\ d_out = <<<< >>, << >>>>

\* the values of the stream: every one is a value of getrandbits(4), which
\* random.choice reads for the ten departments, and of getrandbits(11),
\* which random_date reads for the window of the teams
RawValues == (0..(MaxRaw - 1)) \cup {Len(Departments)}

\* num_teams in 1..MaxRunTeams, and the stream of values the seed yields
RunsCall ==
    /\ d_pc = "call"
    /\ d_num \in 1..MaxRunTeams
    /\ d_stream \in [1..(2 * d_num + MaxDiscard) -> RawValues]
    /\ d_run = 1
    /\ d_pos = 0
    /\ d_out = <<<< >>, << >>>>

-----------------------------------------------------------------------------
(* The per-task loops of generate_subtasks and generate_attachments *)

AttIdle ==
    /\ a_sel = FALSE
    /\ a_num = 0
    /\ a_left = 0
    /\ a_used = {}
    /\ a_name = << >>

\* list(_FILE_TYPE_MAP.keys()), lines 20-28: an extension is the full stop
\* and the letters after it
FileTypeKeys ==
    << <<".", "png">>, <<".", "jpg">>, <<".", "pdf">>, <<".", "csv">>,
       <<".", "xlsx">>, <<".", "zip">>, <<".", "pptx">> >>

\* `_FILE_TYPE_MAP.get(ext, "application/octet-stream")`
FileTypeMap(ext) ==
    CASE ext = <<".", "png">>  -> "image/png"
      [] ext = <<".", "jpg">>  -> "image/jpeg"
      [] ext = <<".", "pdf">>  -> "application/pdf"
      [] ext = <<".", "csv">>  -> "text/csv"
      [] ext = <<".", "xlsx">> -> "application/vnd.ms-excel"
      [] ext = <<".", "zip">>  -> "application/zip"
      [] ext = <<".", "pptx">> -> "application/vnd.ms-powerpoint"
      [] OTHER                 -> "application/octet-stream"

\* _FILE_NAME_SUFFIXES, lines 30-37
FileNameSuffixes == <<"v1", "v2", "v3", "final", "draft", "review">>

\* _AVG_SIZE_RANGE_KB and _MAX_SIZE_RANGE_KB, lines 39-40
AvgSizeLowKb == 500

AvgSizeHighKb == 2500

MaxSizeLowKb == 50

MaxSizeHighKb == 5000

\* line 82: the largest value of num_attachments
MaxAttachments == 3

\* of the suffixes, and of the extensions, that random.choice can return
\* for a file name the model follows the first MaxNameParts
MaxNameParts == 2

\* str.lower() on the words of a task name
LowerWord(t) ==
    CASE t = "Implement" -> "implement"
      [] t = "Release"   -> "release"
      [] OTHER           -> t

\* the tokens made of characters other than a-z and 0-9
NonAlnum == {" ", ".", "-", "_"}

\* a token that was not removed
Remains(t) == t # ""

\* re.sub(r"[^a-z0-9]+", "_", name): every run of such tokens becomes one
\* "_": the first token of the run becomes "_", the others are removed
SubRuns(text) ==
    SelectSeq([k \in 1..Len(text) |->
                  IF text[k] \notin NonAlnum THEN text[k]
                  ELSE IF k > 1 /\ text[k - 1] \in NonAlnum THEN ""
                  ELSE "_"],
              Remains)

\* _sanitize_name, lines 43-47
SanitizeName(name) ==
    LET lowered == [k \in 1..Len(name) |-> LowerWord(name[k])]
    IN  RStrip(LStrip(SubRuns(lowered), {"_"}), {"_"})

\* f"{base}_{suffix}{ext}", line 55
FileName(base, suffix, ext) == base \o <<"_", suffix>> \o ext

\* _generate_file_name, lines 50-55: the name it returns when the two
\* random.choice calls take the suffix and the extension at the given
\* positions
GenerateFileName(task_name, suffix, ext) ==
    FileName(SanitizeName(task_name), FileNameSuffixes[suffix],
             FileTypeKeys[ext])

\* the names _generate_file_name can return
FileNames(task_name) ==
    {GenerateFileName(task_name, suffix, ext) :
        suffix \in 1..Len(FileNameSuffixes), ext \in 1..Len(FileTypeKeys)}

\* file_name.split(".")[-1]: what follows the last full stop
RECURSIVE AfterLastDot(_)
AfterLastDot(file_name) ==
    IF file_name = << >> \/ file_name[Len(file_name)] = "." THEN << >>
    ELSE Append(AfterLastDot(SubSeq(file_name, 1, Len(file_name) - 1)),
                file_name[Len(file_name)])

\* line 96: `ext = "." + file_name.split(".")[-1]`
ExtOf(file_name) == <<".">> \o AfterLastDot(file_name)

\* `file_name in used_names`, line 92; never, in place of it
NameUsedNever(file_name, used_names) == FALSE

NameUsed(file_name, used_names) == file_name \in used_names

\* lines 99-101: file_size_kb, given the value of the first randint,
\* whether `random.random() < 0.15`, and the value of the second randint
FileSizeKb(average, large, largest) == IF large THEN largest ELSE average

\* lines 62-67: `if not tasks: return []`
GaEnter ==
    /\ r_pc = "call"
    /\ r_gen = "attachments"
    /\ r_pc' = IF r_parents = << >> THEN "returned" ELSE "task"
    /\ UNCHANGED <<recArgs, r_prompts, r_department, r_rec, r_count, r_call, r_exc>>
    /\ UNCHANGED attVars

\* lines 70-83: the head of the task loop.  The task is skipped by the draw
\* of line 71 or for its missing dates, and the loop over the one task of the
\* list is over; or num_attachments is drawn.
GaTask ==
    /\ r_pc = "task"
    /\ r_gen = "attachments"
    /\ \E skipped \in BOOLEAN, num_attachments \in 1..MaxAttachments :
           /\ a_sel' = ~skipped
           /\ IF skipped \/ ParentLacksDates(r_parents[1])
              THEN /\ r_pc' = "returned"
                   /\ UNCHANGED <<a_num, a_left, a_used, a_name>>
              ELSE /\ r_pc' = "name"
                   /\ a_num' = num_attachments
                   /\ a_left' = num_attachments
                   /\ a_used' = {}
                   /\ UNCHANGED a_name
    /\ UNCHANGED <<recArgs, r_prompts, r_department, r_rec, r_count, r_call, r_exc>>

\* the draws of _generate_file_name that the model follows, for the first
\* name of an attachment (line 91) and for a name drawn again (line 93)
GaRandomName ==
    /\ r_gen = "attachments"
    /\ r_pc = "name" \/ (r_pc = "check" /\ NameUsed(a_name, a_used))
    /\ rnd = NoDraw
    /\ \E suffix \in 1..Min(Len(FileNameSuffixes), MaxNameParts),
          ext \in 1..Min(Len(FileTypeKeys), MaxNameParts) :
           rnd' = [step |-> "name", suffix |-> suffix, ext |-> ext]

\* a draw of a name that gives one not in used_names
GaRandomNameFresh ==
    /\ GaRandomName
    /\ ~NameUsed(GenerateFileName(r_parents[1].name, rnd'.suffix, rnd'.ext),
                 a_used)

\* the draws of lines 99-103 that the model follows
GaRandomFile ==
    /\ r_gen = "attachments"
    /\ r_pc = "check"
    /\ ~NameUsed(a_name, a_used)
    /\ rnd = NoDraw
    /\ \E average \in FollowedValues(AvgSizeLowKb, AvgSizeHighKb),
          large \in BOOLEAN,
          uploaded_at \in FollowedOffsets(r_parents[1].created_at,
                                          r_parents[1].due_date) :
       \E largest \in (IF large
                       THEN FollowedValues(MaxSizeLowKb, MaxSizeHighKb)
                       ELSE {NotDrawn}) :
           rnd' = [step        |-> "file",
                   average     |-> average,
                   large       |-> large,
                   largest     |-> largest,
                   uploaded_at |-> uploaded_at]

\* line 91: the first draw of a file name
GaName ==
    /\ r_pc = "name"
    /\ r_gen = "attachments"
    /\ rnd.step = "name"
    /\ a_name' = GenerateFileName(r_parents[1].name, rnd.suffix, rnd.ext)
    /\ rnd' = NoDraw
    /\ r_pc' = "check"
    /\ UNCHANGED <<recArgs, r_prompts, r_department, r_rec, r_count, r_call, r_exc>>
    /\ UNCHANGED <<a_sel, a_num, a_left, a_used>>

\* lines 92-93: the name is in used_names and another one is drawn
GaRegenerate ==
    /\ r_pc = "check"
    /\ r_gen = "attachments"
    /\ NameUsed(a_name, a_used)
    /\ rnd.step = "name"
    /\ a_name' = GenerateFileName(r_parents[1].name, rnd.suffix, rnd.ext)
    /\ rnd' = NoDraw
    /\ UNCHANGED <<r_pc, recArgs, r_prompts, r_department, r_rec, r_count, r_call, r_exc>>
    /\ UNCHANGED <<a_sel, a_num, a_left, a_used>>

\* lines 94-115: the name is not in used_names; the attachment is appended
GaAppend ==
    /\ r_pc = "check"
    /\ r_gen = "attachments"
    /\ ~NameUsed(a_name, a_used)
    /\ a_used' = a_used \cup {a_name}
    /\ a_left' = a_left - 1
    /\ rnd.step = "file"
    /\ rnd' = NoDraw
    /\ LET task == r_parents[1]
       IN  r_rec' = [kind          |-> "attachment",
                     attachment_id |-> Uuid("att", r_count + 1),
                     task_id       |-> task.task_id,
                     file_name     |-> a_name,
                     file_type     |-> FileTypeMap(ExtOf(a_name)),
                     file_size_kb  |-> FileSizeKb(rnd.average, rnd.large,
                                                  rnd.largest),
                     uploaded_at   |-> RandomDate(task.created_at,
                                                  task.due_date,
                                                  rnd.uploaded_at),
                     url           |-> <<"https://example.com/files/">>
                                           \o a_name]
    /\ r_count' = r_count + 1
    /\ r_pc' = "appended"
    /\ UNCHANGED <<recArgs, r_prompts, r_department, r_call, r_exc>>
    /\ UNCHANGED <<a_sel, a_num, a_name>>

\* the head of the attachment loop: once more, or the loops are over and the
\* attachments are returned (lines 117-118)
GaNext ==
    /\ r_pc = "appended"
    /\ r_gen = "attachments"
    /\ r_pc' = IF a_left > 0 THEN "name" ELSE "returned"
    /\ UNCHANGED <<recArgs, r_prompts, r_department, r_rec, r_count, r_call, r_exc>>
    /\ UNCHANGED attVars

-----------------------------------------------------------------------------
(* generate_tags and assign_tags_to_tasks *)

TagsIdle ==
    /\ tg_pc = "idle"
    /\ tg_fn = "none"
    /\ tg_arg = 0
    /\ tg_tasks = << >>
    /\ tg_tags = << >>
    /\ tg_i = 0
    /\ tg_ret = << >>

\* tags.py, _SUGGESTED_TAG_NAMES
SuggestedTagNames ==
    <<"Backend", "Frontend", "Bug", "UI/UX", "Sprint 1", "Sprint 2",
      "Sprint 3", "Q1 Goals", "Q2 Goals", "Documentation", "Hotfix",
      "Urgent", "Testing", "Research", "Release", "Client Feedback",
      "Design Review", "Refactor", "API", "Performance", "Analytics",
      "Integration", "DevOps", "Security", "Product Launch", "Content",
      "SEO", "Infrastructure", "Scalability", "Reliability", "Monitoring",
      "Migration", "Compliance", "Accessibility", "Experiment", "Growth",
      "Churn Reduction", "User Feedback", "Automation", "Optimization">>

\* _COLOR_PALETTE, lines 18-27
ColorPalette ==
    <<"red", "blue", "green", "yellow", "purple", "gray", "teal", "orange">>

\* list(dict.fromkeys(items)): every item once, at the place of its first
\* occurrence
RECURSIVE DictFromKeys(_)
DictFromKeys(items) ==
    IF items = << >> THEN << >>
    ELSE LET front == DictFromKeys(SubSeq(items, 1, Len(items) - 1))
             last  == items[Len(items)]
         IN  IF \E k \in 1..Len(front) : front[k] = last
             THEN front
             ELSE Append(front, last)

\* line 88: the local tag_names
TagNames == DictFromKeys(SuggestedTagNames)

\* largest of the small values of num_tags that are tried
MaxTags == 2

\* the values of num_tags: the small ones, and the ones around the number of
\* names there are
TagCounts ==
    ((0 - 1)..MaxTags)
        \cup ((Len(SuggestedTagNames) - 1)..(Len(SuggestedTagNames) + 1))

\* random.sample(population, k), for k <= len(population), takes the items
\* at k distinct positions, in any order: the sequences of positions it can
\* take from a population of n items
SamplePositions(n, k) ==
    {q \in [1..k -> 1..n] : \A a, b \in 1..k : q[a] = q[b] => a = b}

\* the samples the model follows where the sequences of positions are too
\* many: k positions in a row, from one of the first MaxPick positions on
\* and around the end of the population
FollowedSamples(n, k) ==
    {[j \in 1..k |-> ((start + j - 2) % n) + 1] : start \in 1..Min(n, MaxPick)}

\* the item at the first position, once for each position
SampleRepeated(items, positions) ==
    [j \in 1..Len(positions) |-> items[positions[1]]]

\* random.sample(items, k): the list it returns when it takes the items at
\* the given positions
Sample(items, positions) ==
    [j \in 1..Len(positions) |-> items[positions[j]]]

\* largest number of tasks handed to assign_tags_to_tasks
MaxTagTasks == 2

\* lists of records with distinct identifiers
IdLists(prefix, field, longest) ==
    {[i \in 1..n |-> [f \in {field} |-> Uuid(prefix, i)]] : n \in 0..longest}

TagsCall ==
    /\ tg_pc = "call"
    /\ \/ /\ tg_fn = "generate_tags"
          /\ tg_arg \in TagCounts
          /\ tg_tasks = << >>
          /\ tg_tags = << >>
       \/ /\ tg_fn = "assign_tags_to_tasks"
          /\ tg_arg \in (0 - 1)..MaxTags
          /\ tg_tasks \in IdLists("task", "task_id", MaxTagTasks)
          /\ tg_tags \in IdLists("tag", "tag_id", MaxTags)
    /\ tg_i = 0
    /\ tg_ret = << >>

\* lines 83-90: the two checks of num_tags
TagCountRejected(num_tags) == num_tags <= 0 \/ num_tags > Len(TagNames)

\* the draws the model follows: the sample of generate_tags; the colour of
\* a tag, any colour for the first MaxTags tags and the first colour for the
\* later ones; num_tags and the sample of a task of assign_tags_to_tasks
TgRandom ==
    /\ tg_fn = "generate_tags"
    /\ rnd = NoDraw
    /\ \/ /\ tg_pc = "call"
          /\ ~TagCountRejected(tg_arg)
          /\ \E positions \in FollowedSamples(Len(TagNames), tg_arg) :
                 rnd' = [step |-> "sample", positions |-> positions]
       \/ /\ tg_pc = "loop"
          /\ tg_i < Len(tg_tags)
          /\ \E color \in (IF tg_i < MaxTags THEN 1..Len(ColorPalette)
                            ELSE {1}) :
                 rnd' = [step |-> "color", color |-> color]

AtRandom ==
    /\ tg_fn = "assign_tags_to_tasks"
    /\ tg_pc = "loop"
    /\ tg_i < Len(tg_tasks)
    /\ rnd = NoDraw
    /\ \E num_tags \in Randint(0, tg_arg) :
       \E positions \in (IF num_tags = 0 THEN {<< >>}
                         ELSE SamplePositions(Len(tg_tags),
                                              Min(num_tags, Len(tg_tags)))) :
           rnd' = [step      |-> "tags",
                   num_tags  |-> num_tags,
                   positions |-> positions]

\* generate_tags, lines 83-92: the two checks of num_tags and the sample
TgEnter ==
    /\ tg_pc = "call" /\ tg_fn = "generate_tags"
    /\ IF TagCountRejected(tg_arg)
       THEN /\ tg_pc' = "raised"
            /\ UNCHANGED <<tg_tags, rnd>>
       ELSE /\ rnd.step = "sample"
            /\ tg_pc' = "loop"
            /\ tg_tags' = Sample(TagNames, rnd.positions)
            /\ rnd' = NoDraw
    /\ UNCHANGED <<tg_fn, tg_arg, tg_tasks, tg_i, tg_ret>>

\* lines 97-104: one pass of the loop over selected_names
TgBody ==
    /\ tg_pc = "loop" /\ tg_fn = "generate_tags"
    /\ tg_i < Len(tg_tags)
    /\ rnd.step = "color"
    /\ rnd' = NoDraw
    /\ tg_ret' = Append(tg_ret, [tag_id |-> Uuid("tag", tg_i + 1),
                                 name   |-> tg_tags[tg_i + 1],
                                 color  |-> ColorPalette[rnd.color]])
    /\ tg_i' = tg_i + 1
    /\ UNCHANGED <<tg_pc, tg_fn, tg_arg, tg_tasks, tg_tags>>

\* lines 106-107
TgReturn ==
    /\ tg_pc = "loop" /\ tg_fn = "generate_tags"
    /\ tg_i = Len(tg_tags)
    /\ tg_pc' = "returned"
    /\ UNCHANGED <<tg_fn, tg_arg, tg_tasks, tg_tags, tg_i, tg_ret>>

\* assign_tags_to_tasks, lines 126-134: the early return on an empty list,
\* then the check of max_tags_per_task
AtEnter ==
    /\ tg_pc = "call" /\ tg_fn = "assign_tags_to_tasks"
    /\ tg_pc' = IF tg_tasks = << >> \/ tg_tags = << >> THEN "returned"
                ELSE IF tg_arg < 0 THEN "raised"
                ELSE "loop"
    /\ UNCHANGED <<tg_fn, tg_arg, tg_tasks, tg_tags, tg_i, tg_ret>>

\* lines 137-153: one pass of the task loop
AtTask ==
    /\ tg_pc = "loop" /\ tg_fn = "assign_tags_to_tasks"
    /\ tg_i < Len(tg_tasks)
    /\ rnd.step = "tags"
    /\ rnd' = NoDraw
    /\ IF rnd.num_tags = 0 THEN UNCHANGED tg_ret
       ELSE LET selected_tags == Sample(tg_tags, rnd.positions)
            IN  tg_ret' = tg_ret \o
                    [j \in 1..Len(selected_tags) |->
                        [task_id |-> tg_tasks[tg_i + 1].task_id,
                         tag_id  |-> selected_tags[j].tag_id]]
    /\ tg_i' = tg_i + 1
    /\ UNCHANGED <<tg_pc, tg_fn, tg_arg, tg_tasks, tg_tags>>

\* lines 155-156
AtReturn ==
    /\ tg_pc = "loop" /\ tg_fn = "assign_tags_to_tasks"
    /\ tg_i = Len(tg_tasks)
    /\ tg_pc' = "returned"
    /\ UNCHANGED <<tg_fn, tg_arg, tg_tasks, tg_tags, tg_i, tg_ret>>

-----------------------------------------------------------------------------
(* main: the generator calls of main and insert_data *)

\* the users an assignee is chosen from: `random.choice(users)` with the
\* list main passes, which is the list generate_users returned
AssigneePoolUntruncated == all_users

AssigneePool == users

\* `if users and random_bool(0.8): random.choice(users)["user_id"]`, else
\* None: the positions random.choice can take, and NotDrawn where it is not
\* called
AssigneeDraws == {NotDrawn} \cup (1..Len(AssigneePool))

\* the assignee_id, given the draw
AssigneeId(draw) ==
    IF draw = NotDrawn THEN NoId ELSE AssigneePool[draw].user_id

\* `records.append(...)` for each record of one pass of a generator's loop;
\* in front of the list instead of at its end
ExtendInFront(records, added) == added \o records

Extend(records, added) == records \o added

\* the loop of a generator over its parents, the pass of the j-th parent
\* appending counts[j] records: the parent and the rank within its pass of
\* each record of the list after the first k passes
RECURSIVE Passes(_, _)
Passes(counts, k) ==
    IF k = 0 THEN << >>
    ELSE Extend(Passes(counts, k - 1),
                [j \in 1..counts[k] |-> [parent |-> k, rank |-> j]])

\* custom_fields.py line 89 and the pool of line 19, tags.py line 113: the
\* bounds of the per-parent counts
MinFields == 2

MaxFields == 5

FieldPoolSize == 10

DefaultMaxTagsPerTask == 3

\* tasks.py lines 101-104: the range of num_tasks is empty
TasksRangeEmpty ==
    LET base == BaseTasksPerProject(m_limit, Len(projects))
    IN  NumTasksLow(base) > NumTasksHigh(base)

\* tasks.py lines 107-114: the number of tasks there are after the first k
\* projects, the task loop of a project returning once the limit is reached
RECURSIVE TasksMade(_, _, _)
TasksMade(counts, limit, k) ==
    IF k = 0 THEN 0
    ELSE LET before == TasksMade(counts, limit, k - 1)
         IN  Max(before, Min(limit, before + counts[k]))

\* a check made only when the records reach insert_data
ConfigErrorAtInsert(step, departments) == step = "insert"

\* the generator main calls at a step rejects its configuration: teams.py
\* lines 48-55, users.py lines 31-32, projects.py lines 70-71, tasks.py
\* lines 84-85 and the empty range of the randint of lines 101-104 (which
\* is reached when load_prompts has returned), tags.py lines 83-90.  Every
\* check precedes the first record of its generator.
ConfigErrorAt(step, departments) ==
    \/ step = "teams" /\ (MainTeams <= 0 \/ departments = << >>)
    \/ step = "users" /\ m_i = 1 /\ teams = << >>
    \/ step = "projects" /\ teams = << >>
    \/ /\ step = "tasks"
       /\ \/ projects = << >>
          \/ ~LoadPromptsRaises(m_file) /\ TasksRangeEmpty
    \/ step = "tags" /\ (MainTags <= 0 \/ MainTags > Len(TagNames))

\* the least and the greatest value of a set of numbers
Least(S) == CHOOSE x \in S : \A y \in S : x <= y

Greatest(S) == CHOOSE x \in S : \A y \in S : x >= y

\* ---- the draws of a generator call that the model follows ----

\* the draws a generator makes for the parent, or the record, at a position
\* of its list are followed for the first MainDraws positions
Followed(position) == position <= MainDraws

\* the values of the random.randint(low, high) made for the parent at a
\* position that the model follows: the MainFan lowest of the range, and
\* past the followed parents the lowest
MainValues(position, low, high) ==
    low .. Min(high, low + (IF Followed(position) THEN MainFan - 1 ELSE 0))

\* the sequences that take their k-th item from the k-th of the sets
RECURSIVE Products(_)
Products(sets) ==
    IF sets = << >> THEN {<< >>}
    ELSE {Append(q, x) : q \in Products(SubSeq(sets, 1, Len(sets) - 1)),
                         x \in sets[Len(sets)]}

\* a task that is not selected (generate_subtasks, generate_comments), or
\* skipped (generate_attachments), or that gets no tag
NotSelected == [selected |-> FALSE, count |-> NotDrawn, each |-> << >>]

\* a selected task: the count drawn for it, and the draw made for each of
\* its records
Selected(counts, draws) ==
    UNION {{[selected |-> TRUE, count |-> n, each |-> q] :
               q \in [1..n -> draws]} : n \in counts}

\* the generator at m_pc gets to its draws: it neither raises nor returns
\* before them
MainDrawsDue ==
    CASE m_pc = "teams"         -> ~ConfigErrorAt("teams", Departments)
      [] m_pc = "projects"      -> ~ConfigErrorAt("projects", Departments)
      [] m_pc = "sections"      -> projects # << >>
      [] m_pc = "tasks"         -> /\ ~ConfigErrorAt("tasks", Departments)
                                   /\ ~LoadPromptsRaises(m_file)
      [] m_pc = "subtasks"      -> tasks # << >>
      [] m_pc = "comments"      -> tasks # << >> /\ users # << >>
      [] m_pc = "task_tags"     -> tasks # << >> /\ tags # << >>
      [] m_pc = "attachments"   -> tasks # << >>
      [] m_pc = "custom_fields" -> projects # << >>
      [] OTHER                  -> FALSE

\* the draws of the generator call at m_pc that the model follows
MainFollowed ==
    CASE m_pc = "teams" ->
            {[step |-> "teams", department |-> q] :
                q \in Products([j \in 1..MainTeams |->
                                  IF Followed(j)
                                  THEN FollowedPositions(Departments)
                                  ELSE {1}])}
      [] m_pc = "projects" ->
            {[step |-> "projects", num_projects |-> q] :
                q \in Products([k \in 1..Len(teams) |->
                                  MainValues(k, MinProjects,
                                             MaxProjectsPerTeam)])}
      [] m_pc = "sections" ->
            {[step |-> "sections", num_sections |-> q] :
                q \in Products(
                         [k \in 1..Len(projects) |->
                             MainValues(
                                 k,
                                 Least(NumSections(projects[k].department)),
                                 Greatest(
                                     NumSections(projects[k].department)))])}
      [] m_pc = "tasks" ->
            LET base == BaseTasksPerProject(m_limit, Len(projects))
            IN  UNION {
                  LET total == IF TaskNameRaises(LoadPrompts(m_file)) THEN 0
                               ELSE TasksMade(n, m_limit, Len(projects))
                  IN  {[step        |-> "tasks",
                        num_tasks   |-> n,
                        assignee_id |-> a,
                        status      |-> st] :
                          a \in Products([p \in 1..total |->
                                            IF Followed(p) THEN AssigneeDraws
                                            ELSE {NotDrawn}]),
                          st \in Products(
                                  [p \in 1..total |->
                                      IF Followed(p)
                                      THEN FollowedPositions(TaskStatusWeights)
                                      ELSE {1}])}
                  : n \in Products([k \in 1..Len(projects) |->
                                      MainValues(k, NumTasksLow(base),
                                                 NumTasksHigh(base))])}
      [] m_pc = "subtasks" ->
            {[step |-> "subtasks", task |-> q] :
                q \in Products(
                         [k \in 1..Len(tasks) |->
                             IF Followed(k)
                             THEN {NotSelected} \cup
                                  Selected(
                                      MainValues(
                                          k, 1,
                                          MaxSubtasks(ParentStatus(tasks[k]))),
                                      AssigneeDraws)
                             ELSE {NotSelected}])}
      [] m_pc = "comments" ->
            {[step |-> "comments", task |-> q] :
                q \in Products(
                         [k \in 1..Len(tasks) |->
                             IF Followed(k)
                             THEN {NotSelected} \cup
                                  Selected(MainValues(k, 1, MaxComments),
                                           1..Len(users))
                             ELSE {NotSelected}])}
      [] m_pc = "task_tags" ->
            {[step |-> "task_tags", task |-> q] :
                q \in Products(
                         [k \in 1..Len(tasks) |->
                             IF Followed(k)
                             THEN {[num_tags |-> 0, positions |-> << >>]}
                                  \cup UNION {
                                     {[num_tags |-> n, positions |-> x] :
                                         x \in SamplePositions(
                                                   Len(tags),
                                                   Min(n, Len(tags)))}
                                     : n \in MainValues(
                                                 k, 1, DefaultMaxTagsPerTask)}
                             ELSE {[num_tags |-> 0, positions |-> << >>]}])}
      [] m_pc = "attachments" ->
            {[step |-> "attachments", task |-> q] :
                q \in Products(
                         [k \in 1..Len(tasks) |->
                             IF Followed(k)
                             THEN {NotSelected} \cup
                                  Selected(MainValues(k, 1, MaxAttachments),
                                           {NotDrawn})
                             ELSE {NotSelected}])}
      [] m_pc = "custom_fields" ->
            {[step |-> "custom_fields", num_fields |-> q] :
                q \in Products([k \in 1..Len(projects) |->
                                  MainValues(k, MinFields, MaxFields)])}

MRandom ==
    /\ rnd = NoDraw
    /\ MainDrawsDue
    /\ rnd' \in MainFollowed
    /\ UNCHANGED mainVars

\* the number of records of each task of a per-task loop: none for a task
\* that is not selected
CountsOf(draws) ==
    [k \in 1..Len(draws) |-> IF draws[k].selected THEN draws[k].count ELSE 0]

\* ---- the steps of main ----

\* line 109: setup_database removes the file at DB_PATH when there is one
\* and creates the empty tables
MSetup ==
    /\ m_pc = "setup"
    /\ db' = [t \in Tables |-> << >>]
    /\ m_pc' = "organization"
    /\ UNCHANGED <<m_i, m_uuid, org, teams, all_users, users, projects,
                   sections, tasks, subtasks, comments, tags, task_tags,
                   attachments, custom_fields, insert_calls, commits>>
    /\ UNCHANGED <<m_limit, m_file>>

\* line 115: generate_organization
MGenOrganization ==
    /\ m_pc = "organization"
    /\ org' = [org_id |-> Uuid("org", m_uuid + 1)]
    /\ m_uuid' = m_uuid + 1
    /\ m_pc' = "teams"
    /\ UNCHANGED <<m_i, teams, all_users, users, projects, sections, tasks,
                   subtasks, comments, tags, task_tags, attachments,
                   custom_fields, insert_calls, db, commits>>
    /\ UNCHANGED <<m_limit, m_file>>

\* line 118: generate_teams(org_id=org["org_id"]); each team gets the
\* department random.choice takes from the catalog
MGenTeams ==
    /\ m_pc = "teams"
    /\ rnd' = NoDraw
    /\ IF ConfigErrorAt("teams", Departments)
       THEN /\ m_pc' = "config_error"
            /\ UNCHANGED <<teams, m_uuid, m_i>>
       ELSE /\ rnd.step = "teams"
            /\ teams' = [j \in 1..MainTeams |->
                            [team_id    |-> Uuid("team", m_uuid + j),
                             org_id     |-> org.org_id,
                             department |->
                                 Departments[rnd.department[j]]]]
            /\ m_uuid' = m_uuid + MainTeams
            /\ m_pc' = "users"
            /\ m_i' = 1
    /\ UNCHANGED <<org, all_users, users, projects, sections, tasks,
                   subtasks, comments, tags, task_tags, attachments,
                   custom_fields, insert_calls, db, commits>>
    /\ UNCHANGED <<m_limit, m_file>>

\* line 121: generate_users(teams): one team per step, then the shuffle and
\* the truncation
MGenUsers ==
    /\ m_pc = "users"
    /\ IF ConfigErrorAt("users", Departments)
       THEN /\ m_pc' = "config_error"
            /\ UNCHANGED <<all_users, users, m_uuid, m_i>>
       ELSE IF m_i <= Len(teams)
       THEN /\ \E variation \in Variations(BaseTeamSize(m_i - 1, MainTotalUsers,
                                                        Len(teams))) :
                 LET size == Max(1, BaseTeamSize(m_i - 1, MainTotalUsers,
                                                 Len(teams)) + variation)
                 IN  /\ all_users' = Extend(all_users,
                            [j \in 1..size |->
                                [user_id |-> Uuid("user", m_uuid + j),
                                 team_id |-> teams[m_i].team_id]])
                     /\ m_uuid' = m_uuid + size
            /\ m_i' = m_i + 1
            /\ UNCHANGED <<m_pc, users>>
       ELSE /\ users' \in ShuffleTruncate(all_users, MainTotalUsers)
            /\ m_pc' = "projects"
            /\ m_i' = 1
            /\ UNCHANGED <<all_users, m_uuid>>
    /\ UNCHANGED <<org, teams, projects, sections, tasks, subtasks, comments,
                   tags, task_tags, attachments, custom_fields, insert_calls,
                   db, commits>>
    /\ UNCHANGED <<m_limit, m_file>>

\* line 124: generate_projects(teams): the projects of a team have its
\* department, and there are randint(3, 12) of them
MGenProjects ==
    /\ m_pc = "projects"
    /\ rnd' = NoDraw
    /\ IF ConfigErrorAt("projects", Departments)
       THEN /\ m_pc' = "config_error"
            /\ UNCHANGED <<projects, m_uuid>>
       ELSE /\ rnd.step = "projects"
            /\ LET made == Passes(rnd.num_projects, Len(teams))
               IN  /\ projects' =
                          [p \in 1..Len(made) |->
                              [project_id |-> Uuid("proj", m_uuid + p),
                               team_id    |-> teams[made[p].parent].team_id,
                               department |->
                                   teams[made[p].parent].department]]
                   /\ m_uuid' = m_uuid + Len(made)
            /\ m_pc' = "sections"
    /\ UNCHANGED <<m_i, org, teams, all_users, users, sections, tasks,
                   subtasks, comments, tags, task_tags, attachments,
                   custom_fields, insert_calls, db, commits>>
    /\ UNCHANGED <<m_limit, m_file>>

\* line 127: generate_sections(projects): a project gets the first
\* num_sections names of the template of its department
MGenSections ==
    /\ m_pc = "sections"
    /\ rnd' = NoDraw
    /\ IF projects = << >>
       THEN UNCHANGED <<sections, m_uuid>>
       ELSE /\ rnd.step = "sections"
            /\ LET chosen_sections ==
                       [k \in 1..Len(projects) |->
                           Prefix(ChooseSectionTemplate(projects[k].department),
                                  rnd.num_sections[k])]
                   made == Passes([k \in 1..Len(projects) |->
                                      Len(chosen_sections[k])],
                                  Len(projects))
               IN  /\ sections' =
                          [p \in 1..Len(made) |->
                              [section_id |-> Uuid("sec", m_uuid + p),
                               project_id |->
                                   projects[made[p].parent].project_id]]
                   /\ m_uuid' = m_uuid + Len(made)
    /\ m_pc' = "tasks"
    /\ UNCHANGED <<m_i, org, teams, all_users, users, projects, tasks,
                   subtasks, comments, tags, task_tags, attachments,
                   custom_fields, insert_calls, db, commits>>
    /\ UNCHANGED <<m_limit, m_file>>

\* line 130: generate_tasks(projects, users, TOTAL_TASKS).  The call raises
\* ValueError on an empty list of projects and on an empty range of
\* num_tasks, FileNotFoundError when the prompt file is missing and
\* IndexError at its first task when the file holds no template; it returns
\* as soon as a task is due with the limit reached.
MGenTasks ==
    /\ m_pc = "tasks"
    /\ rnd' = NoDraw
    /\ IF ConfigErrorAt("tasks", Departments)
       THEN /\ m_pc' = "config_error"
            /\ UNCHANGED <<tasks, m_uuid>>
       ELSE IF LoadPromptsRaises(m_file)
       THEN /\ m_pc' = "failed"
            /\ UNCHANGED <<tasks, m_uuid>>
       ELSE /\ rnd.step = "tasks"
            /\ LET total == [k \in 0..Len(projects) |->
                                TasksMade(rnd.num_tasks, m_limit, k)]
                   made == Passes([k \in 1..Len(projects) |->
                                      total[k] - total[k - 1]],
                                  Len(projects))
               IN  IF made # << >> /\ TaskNameRaises(LoadPrompts(m_file))
                   THEN /\ m_pc' = "failed"
                        /\ UNCHANGED <<tasks, m_uuid>>
                   ELSE /\ tasks' =
                               [p \in 1..Len(made) |->
                                   [task_id     |-> Uuid("task", m_uuid + p),
                                    project_id  |->
                                        projects[made[p].parent].project_id,
                                    assignee_id |->
                                        AssigneeId(rnd.assignee_id[p]),
                                    status      |->
                                        TaskStatusWeights[rnd.status[p]][1]]]
                        /\ m_uuid' = m_uuid + Len(made)
                        /\ m_pc' = "subtasks"
    /\ UNCHANGED <<m_i, org, teams, all_users, users, projects, sections,
                   subtasks, comments, tags, task_tags, attachments,
                   custom_fields, insert_calls, db, commits>>
    /\ UNCHANGED <<m_limit, m_file>>

\* line 133: generate_subtasks(tasks, users): a task is selected or not
\* (random_bool(0.5)) and a selected task gets randint(1, max_subtasks)
\* subtasks.  (Every task of generate_tasks has its two dates.)
MGenSubtasks ==
    /\ m_pc = "subtasks"
    /\ rnd' = NoDraw
    /\ IF tasks = << >>
       THEN UNCHANGED <<subtasks, m_uuid>>
       ELSE /\ rnd.step = "subtasks"
            /\ LET made == Passes(CountsOf(rnd.task), Len(tasks))
               IN  /\ subtasks' =
                          [p \in 1..Len(made) |->
                              [subtask_id     |-> Uuid("sub", m_uuid + p),
                               parent_task_id |->
                                   tasks[made[p].parent].task_id,
                               assignee_id    |->
                                   AssigneeId(rnd.task[made[p].parent]
                                                 .each[made[p].rank])]]
                   /\ m_uuid' = m_uuid + Len(made)
    /\ m_pc' = "comments"
    /\ UNCHANGED <<m_i, org, teams, all_users, users, projects, sections,
                   tasks, comments, tags, task_tags, attachments,
                   custom_fields, insert_calls, db, commits>>
    /\ UNCHANGED <<m_limit, m_file>>

\* line 136: generate_comments(tasks, users): nothing is generated when
\* tasks or users is empty; a task is skipped unless random_bool(0.7), and
\* gets randint(1, 6) comments otherwise, each of a user random.choice
\* takes
MGenComments ==
    /\ m_pc = "comments"
    /\ rnd' = NoDraw
    /\ IF tasks = << >> \/ users = << >>
       THEN UNCHANGED <<comments, m_uuid>>
       ELSE /\ rnd.step = "comments"
            /\ LET made == Passes(CountsOf(rnd.task), Len(tasks))
               IN  /\ comments' =
                          [p \in 1..Len(made) |->
                              [comment_id |-> Uuid("com", m_uuid + p),
                               task_id    |-> tasks[made[p].parent].task_id,
                               user_id    |->
                                   users[rnd.task[made[p].parent]
                                            .each[made[p].rank]].user_id]]
                   /\ m_uuid' = m_uuid + Len(made)
    /\ m_pc' = "tags"
    /\ UNCHANGED <<m_i, org, teams, all_users, users, projects, sections,
                   tasks, subtasks, tags, task_tags, attachments,
                   custom_fields, insert_calls, db, commits>>
    /\ UNCHANGED <<m_limit, m_file>>

\* line 139: generate_tags(40)
MGenTags ==
    /\ m_pc = "tags"
    /\ IF ConfigErrorAt("tags", Departments)
       THEN /\ m_pc' = "config_error"
            /\ UNCHANGED <<tags, m_uuid>>
       ELSE /\ tags' = [j \in 1..MainTags |->
                           [tag_id |-> Uuid("tag", m_uuid + j)]]
            /\ m_uuid' = m_uuid + MainTags
            /\ m_pc' = "task_tags"
    /\ UNCHANGED <<m_i, org, teams, all_users, users, projects, sections,
                   tasks, subtasks, comments, task_tags, attachments,
                   custom_fields, insert_calls, db, commits>>
    /\ UNCHANGED <<m_limit, m_file>>

\* line 142: assign_tags_to_tasks(tasks, tags): a task gets no tag when
\* randint(0, max_tags_per_task) is 0, and the min(num_tags, len(tags))
\* tags of random.sample otherwise
MAssignTags ==
    /\ m_pc = "task_tags"
    /\ rnd' = NoDraw
    /\ IF tasks = << >> \/ tags = << >>
       THEN UNCHANGED task_tags
       ELSE /\ rnd.step = "task_tags"
            /\ LET selected_tags ==
                       [k \in 1..Len(tasks) |->
                           Sample(tags, rnd.task[k].positions)]
                   made == Passes([k \in 1..Len(tasks) |->
                                      Len(selected_tags[k])],
                                  Len(tasks))
               IN  task_tags' =
                       [p \in 1..Len(made) |->
                           [task_id |-> tasks[made[p].parent].task_id,
                            tag_id  |-> selected_tags[made[p].parent]
                                            [made[p].rank].tag_id]]
    /\ m_pc' = "attachments"
    /\ UNCHANGED <<m_i, m_uuid, org, teams, all_users, users, projects,
                   sections, tasks, subtasks, comments, tags, attachments,
                   custom_fields, insert_calls, db, commits>>
    /\ UNCHANGED <<m_limit, m_file>>

\* line 145: generate_attachments(tasks): a task is skipped when
\* random.random() > 0.5, and gets randint(1, 3) attachments otherwise
MGenAttachments ==
    /\ m_pc = "attachments"
    /\ rnd' = NoDraw
    /\ IF tasks = << >>
       THEN UNCHANGED <<attachments, m_uuid>>
       ELSE /\ rnd.step = "attachments"
            /\ LET made == Passes(CountsOf(rnd.task), Len(tasks))
               IN  /\ attachments' =
                          [p \in 1..Len(made) |->
                              [attachment_id |-> Uuid("att", m_uuid + p),
                               task_id       |->
                                   tasks[made[p].parent].task_id]]
                   /\ m_uuid' = m_uuid + Len(made)
    /\ m_pc' = "custom_fields"
    /\ UNCHANGED <<m_i, org, teams, all_users, users, projects, sections,
                   tasks, subtasks, comments, tags, task_tags, custom_fields,
                   insert_calls, db, commits>>
    /\ UNCHANGED <<m_limit, m_file>>

\* line 148: generate_custom_fields(projects): a project gets
\* min(randint(2, 5), len(_CUSTOM_FIELD_POOL)) fields
MGenCustomFields ==
    /\ m_pc = "custom_fields"
    /\ rnd' = NoDraw
    /\ IF projects = << >>
       THEN UNCHANGED <<custom_fields, m_uuid>>
       ELSE /\ rnd.step = "custom_fields"
            /\ LET made == Passes([k \in 1..Len(projects) |->
                                      Min(rnd.num_fields[k], FieldPoolSize)],
                                  Len(projects))
               IN  /\ custom_fields' =
                          [p \in 1..Len(made) |->
                              [custom_field_id |-> Uuid("cf", m_uuid + p),
                               project_id      |->
                                   projects[made[p].parent].project_id]]
                   /\ m_uuid' = m_uuid + Len(made)
    /\ m_pc' = "insert"
    /\ UNCHANGED <<m_i, org, teams, all_users, users, projects, sections,
                   tasks, subtasks, comments, tags, task_tags, attachments,
                   insert_calls, db, commits>>
    /\ UNCHANGED <<m_limit, m_file>>

\* insert_data, lines 82-84: `if not records: return`
SkipsBatch(records) == records = << >>

\* lines 155-166: the m_i-th insert_data call of main; insert_data (lines
\* 69-96) returns at once on an empty batch and otherwise inserts the rows
\* and commits
MInsert ==
    /\ m_pc = "insert"
    /\ IF m_i <= Len(InsertOrder)
       THEN /\ insert_calls' = Append(insert_calls, InsertOrder[m_i])
            /\ IF SkipsBatch(Batch(InsertOrder[m_i]))
               THEN UNCHANGED <<db, commits>>
               ELSE /\ db' = [db EXCEPT ![InsertOrder[m_i]] =
                                  @ \o Batch(InsertOrder[m_i])]
                    /\ commits' = commits + 1
            /\ m_i' = m_i + 1
            /\ UNCHANGED m_pc
       ELSE /\ m_pc' = "close"
            /\ UNCHANGED <<m_i, insert_calls, db, commits>>
    /\ UNCHANGED <<m_uuid, org, teams, all_users, users, projects, sections,
                   tasks, subtasks, comments, tags, task_tags, attachments,
                   custom_fields>>
    /\ UNCHANGED <<m_limit, m_file>>

\* lines 168-177: conn.close() and the summary
MClose ==
    /\ m_pc = "close"
    /\ m_pc' = "done"
    /\ UNCHANGED <<m_i, m_uuid, org, teams, all_users, users, projects,
                   sections, tasks, subtasks, comments, tags, task_tags,
                   attachments, custom_fields, insert_calls, db, commits>>
    /\ UNCHANGED <<m_limit, m_file>>

MainLocalsEmpty ==
    /\ m_i = 0
    /\ m_uuid = 0
    /\ org = NoOrg
    /\ teams = << >>
    /\ all_users = << >>
    /\ users = << >>
    /\ projects = << >>
    /\ sections = << >>
    /\ tasks = << >>
    /\ subtasks = << >>
    /\ comments = << >>
    /\ tags = << >>
    /\ task_tags = << >>
    /\ attachments = << >>
    /\ custom_fields = << >>
    /\ insert_calls = << >>
    /\ commits = 0

\* the database file at DB_PATH: with the tables of the schema and no row,
\* or as an earlier successful run left it, with rows in every table
EmptyDb == [t \in Tables |-> << >>]

EarlierDb == [t \in Tables |-> <<[earlier_run |-> t]>>]

MainIdle ==
    /\ m_pc = "idle"
    /\ MainLocalsEmpty
    /\ db = EmptyDb
    /\ m_limit = 0
    /\ m_file = NoFile

\* the values of TOTAL_TASKS a run is started with
MainTaskLimits == {MainTaskLimit - 1, MainTaskLimit}

\* what main finds in its environment: TOTAL_TASKS and the prompt file
MainEnvironment == m_limit \in MainTaskLimits /\ m_file \in PromptFiles

MainCall ==
    m_pc = "setup" /\ MainLocalsEmpty /\ db = EmptyDb /\ MainEnvironment

\* main is started with or without the database of an earlier run in place
MainCallOver ==
    /\ m_pc = "setup"
    /\ MainLocalsEmpty
    /\ db \in {EmptyDb, EarlierDb}
    /\ MainEnvironment

\* lines 179-182: an exception raised by setup_database, by a generator, by
\* insert_data or by conn.close() leaves main through the except clause,
\* which prints and re-raises.  What was committed stays committed.
\* setup_database can fail before or after it has removed the old file.
MFail ==
    /\ m_pc \notin {"idle", "done", "failed", "config_error"}
    /\ m_pc' = "failed"
    /\ db' \in (IF m_pc = "setup" THEN {db, EmptyDb} ELSE {db})
    /\ UNCHANGED <<m_i, m_uuid, org, teams, all_users, users, projects,
                   sections, tasks, subtasks, comments, tags, task_tags,
                   attachments, custom_fields, insert_calls, commits>>
    /\ UNCHANGED <<m_limit, m_file>>

-----------------------------------------------------------------------------
(* main: the configuration checks of the generators it calls *)

\* what get_departments() can hand to generate_teams: the catalog of
\* company_scraper, or no department at all
DepartmentCatalogs == {<< >>, Departments}

\* the ValueError of the check leaves the generator before it has made a
\* record, and main through its except clause (lines 179-182)
MConfigError ==
    /\ \E departments \in DepartmentCatalogs : ConfigErrorAt(m_pc, departments)
    /\ m_pc' = "config_error"
    /\ UNCHANGED <<m_i, m_uuid, org, teams, all_users, users, projects,
                   sections, tasks, subtasks, comments, tags, task_tags,
                   attachments, custom_fields, insert_calls, db, commits>>
    /\ UNCHANGED <<m_limit, m_file>>

-----------------------------------------------------------------------------
(* Specifications *)

\* ensure_chronology on every input of the window, applied once or twice
InitChrono ==
    ChronoCall /\ UsersIdle /\ TasksIdle /\ MainIdle /\ ChoiceIdle /\ RecIdle
    /\ RunsIdle /\ AttIdle /\ TagsIdle
    /\ rnd = NoDraw

NextChrono ==
    \/ EcParse /\ UNCHANGED <<usersVars, tasksVars, mainVars, choiceVars, recVars, runsVars, attVars, tagVars, rndVars>>
    \/ EcFixDue /\ UNCHANGED <<usersVars, tasksVars, mainVars, choiceVars, recVars, runsVars, attVars, tagVars, rndVars>>
    \/ EcFixCompleted /\ UNCHANGED <<usersVars, tasksVars, mainVars, choiceVars, recVars, runsVars, attVars, tagVars, rndVars>>
    \/ EcReturn /\ UNCHANGED <<usersVars, tasksVars, mainVars, choiceVars, recVars, runsVars, attVars, tagVars, rndVars>>
    \/ EcReapply /\ UNCHANGED <<usersVars, tasksVars, mainVars, choiceVars, recVars, runsVars, attVars, tagVars, rndVars>>

SpecChrono == InitChrono /\ [][NextChrono]_vars

\* generate_users on every list of teams, total_users and candidate sequence
InitUsers ==
    UsersCall /\ ChronoIdle /\ TasksIdle /\ MainIdle /\ ChoiceIdle /\ RecIdle
    /\ RunsIdle /\ AttIdle /\ TagsIdle
    /\ rnd = NoDraw

NextUsers ==
    \/ GuEnter /\ UNCHANGED <<chronoVars, tasksVars, mainVars, choiceVars, recVars, runsVars, attVars, tagVars, rndVars>>
    \/ GuTeam /\ UNCHANGED <<chronoVars, tasksVars, mainVars, choiceVars, recVars, runsVars, attVars, tagVars, rndVars>>
    \/ GuProfile /\ UNCHANGED <<chronoVars, tasksVars, mainVars, choiceVars, recVars, runsVars, attVars, tagVars, rndVars>>
    \/ GuDedupe /\ UNCHANGED <<chronoVars, tasksVars, mainVars, choiceVars, recVars, runsVars, attVars, tagVars, rndVars>>
    \/ GuAppend /\ UNCHANGED <<chronoVars, tasksVars, mainVars, choiceVars, recVars, runsVars, attVars, tagVars, rndVars>>
    \/ GuShuffleReturn /\ UNCHANGED <<chronoVars, tasksVars, mainVars, choiceVars, recVars, runsVars, attVars, tagVars, rndVars>>

SpecUsers == InitUsers /\ [][NextUsers]_vars

\* the scheduling of a sequential program: a step that can be taken is taken
SpecUsersFair == SpecUsers /\ WF_vars(NextUsers)

\* generate_tasks on every list of projects and every limit of the bounds
InitTasks ==
    TasksCall /\ ChronoIdle /\ UsersIdle /\ MainIdle /\ ChoiceIdle /\ RecIdle
    /\ RunsIdle /\ AttIdle /\ TagsIdle
    /\ rnd = NoDraw

NextTasks ==
    \/ GtEnter /\ UNCHANGED <<chronoVars, usersVars, mainVars, choiceVars, recVars, runsVars, attVars, tagVars, rndVars>>
    \/ GtProject /\ UNCHANGED <<chronoVars, usersVars, mainVars, choiceVars, recVars, runsVars, attVars, tagVars, rndVars>>
    \/ GtTask /\ UNCHANGED <<chronoVars, usersVars, mainVars, choiceVars, recVars, runsVars, attVars, tagVars, rndVars>>

SpecTasks == InitTasks /\ [][NextTasks]_vars

\* one run of main
Init ==
    MainCall /\ ChronoIdle /\ UsersIdle /\ TasksIdle /\ ChoiceIdle /\ RecIdle
    /\ RunsIdle /\ AttIdle /\ TagsIdle
    /\ rnd = NoDraw

Next ==
    \/ MRandom /\ UNCHANGED <<chronoVars, usersVars, tasksVars, choiceVars, recVars, runsVars, attVars, tagVars>>
    \/ MSetup /\ UNCHANGED <<chronoVars, usersVars, tasksVars, choiceVars, recVars, runsVars, attVars, tagVars, rndVars>>
    \/ MGenOrganization /\ UNCHANGED <<chronoVars, usersVars, tasksVars, choiceVars, recVars, runsVars, attVars, tagVars, rndVars>>
    \/ MGenTeams /\ UNCHANGED <<chronoVars, usersVars, tasksVars, choiceVars, recVars, runsVars, attVars, tagVars>>
    \/ MGenUsers /\ UNCHANGED <<chronoVars, usersVars, tasksVars, choiceVars, recVars, runsVars, attVars, tagVars, rndVars>>
    \/ MGenProjects /\ UNCHANGED <<chronoVars, usersVars, tasksVars, choiceVars, recVars, runsVars, attVars, tagVars>>
    \/ MGenSections /\ UNCHANGED <<chronoVars, usersVars, tasksVars, choiceVars, recVars, runsVars, attVars, tagVars>>
    \/ MGenTasks /\ UNCHANGED <<chronoVars, usersVars, tasksVars, choiceVars, recVars, runsVars, attVars, tagVars>>
    \/ MGenSubtasks /\ UNCHANGED <<chronoVars, usersVars, tasksVars, choiceVars, recVars, runsVars, attVars, tagVars>>
    \/ MGenComments /\ UNCHANGED <<chronoVars, usersVars, tasksVars, choiceVars, recVars, runsVars, attVars, tagVars>>
    \/ MGenTags /\ UNCHANGED <<chronoVars, usersVars, tasksVars, choiceVars, recVars, runsVars, attVars, tagVars, rndVars>>
    \/ MAssignTags /\ UNCHANGED <<chronoVars, usersVars, tasksVars, choiceVars, recVars, runsVars, attVars, tagVars>>
    \/ MGenAttachments /\ UNCHANGED <<chronoVars, usersVars, tasksVars, choiceVars, recVars, runsVars, attVars, tagVars>>
    \/ MGenCustomFields /\ UNCHANGED <<chronoVars, usersVars, tasksVars, choiceVars, recVars, runsVars, attVars, tagVars>>
    \/ MInsert /\ UNCHANGED <<chronoVars, usersVars, tasksVars, choiceVars, recVars, runsVars, attVars, tagVars, rndVars>>
    \/ MClose /\ UNCHANGED <<chronoVars, usersVars, tasksVars, choiceVars, recVars, runsVars, attVars, tagVars, rndVars>>

Spec == Init /\ [][Next]_vars

\* one run of main in which any step can raise
InitFail ==
    MainCallOver /\ ChronoIdle /\ UsersIdle /\ TasksIdle /\ ChoiceIdle /\ RecIdle
    /\ RunsIdle /\ AttIdle /\ TagsIdle
    /\ rnd = NoDraw

NextFail ==
    \/ Next
    \/ MFail /\ UNCHANGED <<chronoVars, usersVars, tasksVars, choiceVars, recVars, runsVars, attVars, tagVars, rndVars>>

SpecFail == InitFail /\ [][NextFail]_vars

\* one run of main in which a generator can reject its configuration
NextConfig ==
    \/ Next
    \/ MConfigError /\ UNCHANGED <<chronoVars, usersVars, tasksVars, choiceVars, recVars, runsVars, attVars, tagVars, rndVars>>

SpecConfig == Init /\ [][NextConfig]_vars

\* weighted_choice on every dictionary of the bounds, called once or again
InitChoice ==
    ChoiceCall /\ ChronoIdle /\ UsersIdle /\ TasksIdle /\ MainIdle /\ RecIdle
    /\ RunsIdle /\ AttIdle /\ TagsIdle
    /\ rnd = NoDraw

NextChoice ==
    \/ WcCall /\ UNCHANGED <<chronoVars, usersVars, tasksVars, mainVars, recVars, runsVars, attVars, tagVars, rndVars>>
    \/ WcAgain /\ UNCHANGED <<chronoVars, usersVars, tasksVars, mainVars, recVars, runsVars, attVars, tagVars, rndVars>>

SpecChoice == InitChoice /\ [][NextChoice]_vars

\* one call of one record generator
InitRecords ==
    RecCall /\ ChronoIdle /\ UsersIdle /\ TasksIdle /\ MainIdle /\ ChoiceIdle
    /\ RunsIdle /\ AttIdle /\ TagsIdle
    /\ rnd = NoDraw

NextRecords ==
    \/ GpRandom /\ UNCHANGED <<chronoVars, usersVars, tasksVars, mainVars, choiceVars, recVars, runsVars, attVars, tagVars>>
    \/ GtrRandom /\ UNCHANGED <<chronoVars, usersVars, tasksVars, mainVars, choiceVars, recVars, runsVars, attVars, tagVars>>
    \/ GstRandom /\ UNCHANGED <<chronoVars, usersVars, tasksVars, mainVars, choiceVars, recVars, runsVars, attVars, tagVars>>
    \/ GcRandom /\ UNCHANGED <<chronoVars, usersVars, tasksVars, mainVars, choiceVars, recVars, runsVars, attVars, tagVars>>
    \/ GaRandomName /\ UNCHANGED <<chronoVars, usersVars, tasksVars, mainVars, choiceVars, recVars, runsVars, attVars, tagVars>>
    \/ GaRandomFile /\ UNCHANGED <<chronoVars, usersVars, tasksVars, mainVars, choiceVars, recVars, runsVars, attVars, tagVars>>
    \/ GpEnter /\ UNCHANGED <<chronoVars, usersVars, tasksVars, mainVars, choiceVars, runsVars, tagVars, rndVars>>
    \/ GpTeam /\ UNCHANGED <<chronoVars, usersVars, tasksVars, mainVars, choiceVars, runsVars, tagVars, rndVars>>
    \/ GpBody /\ UNCHANGED <<chronoVars, usersVars, tasksVars, mainVars, choiceVars, runsVars, tagVars>>
    \/ GpNext /\ UNCHANGED <<chronoVars, usersVars, tasksVars, mainVars, choiceVars, runsVars, tagVars, rndVars>>
    \/ GsecEnter /\ UNCHANGED <<chronoVars, usersVars, tasksVars, mainVars, choiceVars, runsVars, attVars, tagVars, rndVars>>
    \/ GsecProject /\ UNCHANGED <<chronoVars, usersVars, tasksVars, mainVars, choiceVars, runsVars, attVars, tagVars, rndVars>>
    \/ GsecReturn /\ UNCHANGED <<chronoVars, usersVars, tasksVars, mainVars, choiceVars, runsVars, attVars, tagVars, rndVars>>
    \/ GtrEnter /\ UNCHANGED <<chronoVars, usersVars, tasksVars, mainVars, choiceVars, runsVars, tagVars, rndVars>>
    \/ GtrProject /\ UNCHANGED <<chronoVars, usersVars, tasksVars, mainVars, choiceVars, runsVars, tagVars, rndVars>>
    \/ GtrBody /\ UNCHANGED <<chronoVars, usersVars, tasksVars, mainVars, choiceVars, runsVars, tagVars>>
    \/ GtrNext /\ UNCHANGED <<chronoVars, usersVars, tasksVars, mainVars, choiceVars, runsVars, tagVars, rndVars>>
    \/ GstEnter /\ UNCHANGED <<chronoVars, usersVars, tasksVars, mainVars, choiceVars, runsVars, tagVars, rndVars>>
    \/ GstSelect /\ UNCHANGED <<chronoVars, usersVars, tasksVars, mainVars, choiceVars, runsVars, tagVars, rndVars>>
    \/ GstBody /\ UNCHANGED <<chronoVars, usersVars, tasksVars, mainVars, choiceVars, runsVars, tagVars>>
    \/ GstNext /\ UNCHANGED <<chronoVars, usersVars, tasksVars, mainVars, choiceVars, runsVars, tagVars, rndVars>>
    \/ GcEnter /\ UNCHANGED <<chronoVars, usersVars, tasksVars, mainVars, choiceVars, runsVars, tagVars, rndVars>>
    \/ GcSelect /\ UNCHANGED <<chronoVars, usersVars, tasksVars, mainVars, choiceVars, runsVars, tagVars, rndVars>>
    \/ GcBody /\ UNCHANGED <<chronoVars, usersVars, tasksVars, mainVars, choiceVars, runsVars, tagVars>>
    \/ GcNext /\ UNCHANGED <<chronoVars, usersVars, tasksVars, mainVars, choiceVars, runsVars, tagVars, rndVars>>
    \/ GaEnter /\ UNCHANGED <<chronoVars, usersVars, tasksVars, mainVars, choiceVars, runsVars, tagVars, rndVars>>
    \/ GaTask /\ UNCHANGED <<chronoVars, usersVars, tasksVars, mainVars, choiceVars, runsVars, tagVars, rndVars>>
    \/ GaName /\ UNCHANGED <<chronoVars, usersVars, tasksVars, mainVars, choiceVars, runsVars, tagVars>>
    \/ GaRegenerate /\ UNCHANGED <<chronoVars, usersVars, tasksVars, mainVars, choiceVars, runsVars, tagVars>>
    \/ GaAppend /\ UNCHANGED <<chronoVars, usersVars, tasksVars, mainVars, choiceVars, runsVars, tagVars>>
    \/ GaNext /\ UNCHANGED <<chronoVars, usersVars, tasksVars, mainVars, choiceVars, runsVars, tagVars, rndVars>>

SpecRecords == InitRecords /\ [][NextRecords]_vars

\* generate_attachments alone, on every list of at most one task
InitAttachments == InitRecords /\ r_gen = "attachments"

NextAttachments ==
    \/ GaRandomName /\ UNCHANGED <<chronoVars, usersVars, tasksVars, mainVars, choiceVars, recVars, runsVars, attVars, tagVars>>
    \/ GaRandomFile /\ UNCHANGED <<chronoVars, usersVars, tasksVars, mainVars, choiceVars, recVars, runsVars, attVars, tagVars>>
    \/ GaEnter /\ UNCHANGED <<chronoVars, usersVars, tasksVars, mainVars, choiceVars, runsVars, tagVars, rndVars>>
    \/ GaTask /\ UNCHANGED <<chronoVars, usersVars, tasksVars, mainVars, choiceVars, runsVars, tagVars, rndVars>>
    \/ GaName /\ UNCHANGED <<chronoVars, usersVars, tasksVars, mainVars, choiceVars, runsVars, tagVars>>
    \/ GaRegenerate /\ UNCHANGED <<chronoVars, usersVars, tasksVars, mainVars, choiceVars, runsVars, tagVars>>
    \/ GaAppend /\ UNCHANGED <<chronoVars, usersVars, tasksVars, mainVars, choiceVars, runsVars, tagVars>>
    \/ GaNext /\ UNCHANGED <<chronoVars, usersVars, tasksVars, mainVars, choiceVars, runsVars, tagVars, rndVars>>

SpecAttachments == InitAttachments /\ [][NextAttachments]_vars

\* the regeneration of a name goes on, as the steps of a sequential program
\* do, and the draws of file names are fair: while the name is regenerated
\* and a draw can give an unused name, a draw eventually gives one
SpecAttachmentsFair ==
    /\ SpecAttachments
    /\ WF_vars(GaRegenerate /\ UNCHANGED <<chronoVars, usersVars, tasksVars, mainVars, choiceVars, runsVars, tagVars>>)
    /\ SF_vars(GaRandomNameFresh /\ UNCHANGED <<chronoVars, usersVars, tasksVars, mainVars, choiceVars, recVars, runsVars, attVars, tagVars>>)

\* generate_teams run twice, one run after the other
InitRuns ==
    RunsCall /\ ChronoIdle /\ UsersIdle /\ TasksIdle /\ MainIdle /\ ChoiceIdle
    /\ RecIdle /\ AttIdle /\ TagsIdle
    /\ rnd = NoDraw

NextRuns ==
    \/ RtSeed /\ UNCHANGED <<chronoVars, usersVars, tasksVars, mainVars, choiceVars, recVars, attVars, tagVars, rndVars>>
    \/ RtTeam /\ UNCHANGED <<chronoVars, usersVars, tasksVars, mainVars, choiceVars, recVars, attVars, tagVars, rndVars>>
    \/ RtReturn /\ UNCHANGED <<chronoVars, usersVars, tasksVars, mainVars, choiceVars, recVars, attVars, tagVars, rndVars>>

SpecRuns == InitRuns /\ [][NextRuns]_vars

\* generate_tags on every count tried, assign_tags_to_tasks on every input
InitTags ==
    TagsCall /\ ChronoIdle /\ UsersIdle /\ TasksIdle /\ MainIdle /\ ChoiceIdle
    /\ RecIdle /\ RunsIdle /\ AttIdle
    /\ rnd = NoDraw

NextTags ==
    \/ TgRandom /\ UNCHANGED <<chronoVars, usersVars, tasksVars, mainVars, choiceVars, recVars, runsVars, attVars, tagVars>>
    \/ AtRandom /\ UNCHANGED <<chronoVars, usersVars, tasksVars, mainVars, choiceVars, recVars, runsVars, attVars, tagVars>>
    \/ TgEnter /\ UNCHANGED <<chronoVars, usersVars, tasksVars, mainVars, choiceVars, recVars, runsVars, attVars>>
    \/ TgBody /\ UNCHANGED <<chronoVars, usersVars, tasksVars, mainVars, choiceVars, recVars, runsVars, attVars>>
    \/ TgReturn /\ UNCHANGED <<chronoVars, usersVars, tasksVars, mainVars, choiceVars, recVars, runsVars, attVars, rndVars>>
    \/ AtEnter /\ UNCHANGED <<chronoVars, usersVars, tasksVars, mainVars, choiceVars, recVars, runsVars, attVars, rndVars>>
    \/ AtTask /\ UNCHANGED <<chronoVars, usersVars, tasksVars, mainVars, choiceVars, recVars, runsVars, attVars>>
    \/ AtReturn /\ UNCHANGED <<chronoVars, usersVars, tasksVars, mainVars, choiceVars, recVars, runsVars, attVars, rndVars>>

SpecTags == InitTags /\ [][NextTags]_vars

-----------------------------------------------------------------------------
(* Properties of ensure_chronology, checked under SpecChrono *)

\* order of two date strings, compared field by field (ISO strings compare
\* like this as text)
StrLt(a, b) ==
    \/ a.y < b.y
    \/ a.y = b.y /\ a.m < b.m
    \/ a.y = b.y /\ a.m = b.m /\ a.d < b.d

StrLeq(a, b) == a = b \/ StrLt(a, b)

Jan05 == [y |-> 2023, m |-> 1, d |-> 5]

Jan10 == [y |-> 2023, m |-> 1, d |-> 10]

EcReturnedFirst == ec_pc = "returned" /\ ec_runs = 1

\* C1: the returned triple satisfies created <= due whenever due is present,
\* and (due if present, else created) <= completed whenever completed is
\* present, for every input and every outcome of the random offsets.
C1_Chronology ==
    ec_pc = "returned" =>
        /\ ec_ret.due_date # NoneStr => StrLeq(ec_ret.created_at, ec_ret.due_date)
        /\ ec_ret.completed_at # NoneStr =>
              StrLeq(IF ec_ret.due_date # NoneStr THEN ec_ret.due_date
                                                  ELSE ec_ret.created_at,
                     ec_ret.completed_at)

\* C1 witness: a call whose due and completed were both before created has
\* returned.
C1_Witness ==
    /\ EcReturnedFirst
    /\ ec_input.due_date # NoneStr
    /\ StrLt(ec_input.due_date, ec_input.created_at)
    /\ ec_input.completed_at # NoneStr
    /\ StrLt(ec_input.completed_at, ec_input.created_at)

\* C2: when due is present and before created, due is replaced by
\* created + d with d in 1..7 before the completed check is made, and the
\* completed check is anchored on the corrected due: the returned completed
\* is at or after the returned due (and at most 7 days after it when it was
\* moved).  For created 2023-01-10, due 2023-01-05, completed 2023-01-05 the
\* returned due is strictly after 2023-01-10 and the returned completed is at
\* or after the returned due, never 2023-01-05.
C2_CorrectedDueAnchors ==
    /\ (/\ ec_pc \in {"due_checked", "completed_checked"}
        /\ ec_args.due_date # NoneStr
        /\ StrLt(ec_args.due_date, ec_args.created_at))
       => (due_dt - created_dt) \in 1..7
    /\ (/\ EcReturnedFirst
        /\ ec_input.due_date # NoneStr
        /\ StrLt(ec_input.due_date, ec_input.created_at))
       => /\ (ToDate(ec_ret.due_date) - ToDate(ec_input.created_at)) \in 1..7
          /\ ec_input.completed_at # NoneStr =>
                /\ StrLeq(ec_ret.due_date, ec_ret.completed_at)
                /\ ec_ret.completed_at # ec_input.completed_at =>
                      (ToDate(ec_ret.completed_at) - ToDate(ec_ret.due_date))
                          \in 1..7
    /\ (/\ EcReturnedFirst
        /\ ec_input = [created_at |-> Jan10, due_date |-> Jan05,
                       completed_at |-> Jan05])
       => /\ StrLt(Jan10, ec_ret.due_date)
          /\ StrLeq(ec_ret.due_date, ec_ret.completed_at)
          /\ ec_ret.completed_at # Jan05

\* C2 witness: the call of the example has returned.
C2_Witness ==
    /\ EcReturnedFirst
    /\ ec_input = [created_at |-> Jan10, due_date |-> Jan05,
                   completed_at |-> Jan05]
    /\ ec_ret.due_date # Jan05

\* C3: ensure_chronology applied to its own output returns that output
\* unchanged, whatever offsets either application draws.
C3_Idempotent ==
    (ec_pc = "returned" /\ ec_runs = 2) => ec_ret = ec_first

\* C3 witness: the second application has returned, after a first one that
\* corrected both due and completed.
C3_Witness ==
    /\ ec_pc = "returned"
    /\ ec_runs = 2
    /\ ec_first.due_date # ec_input.due_date
    /\ ec_first.completed_at # ec_input.completed_at

\* the parts of C4 that do not depend on the reference of the completed check
C4_Frame ==
    /\ ec_ret.created_at = ec_input.created_at
    /\ ec_input.due_date = NoneStr => ec_ret.due_date = NoneStr
    /\ ec_input.completed_at = NoneStr => ec_ret.completed_at = NoneStr
    /\ (ec_input.due_date # NoneStr
        /\ StrLeq(ec_input.created_at, ec_input.due_date))
       => ec_ret.due_date = ec_input.due_date

\* C4 as stated: created is returned as given, an absent due or completed
\* stays absent, and a present due or completed that is in order in the input
\* is returned unchanged.  A completed counts as in order in the input when it
\* is at or after the input due (if present) and at or after created.
C4_OnlyOutOfOrderChanged ==
    EcReturnedFirst =>
        /\ C4_Frame
        /\ (/\ ec_input.completed_at # NoneStr
            /\ StrLeq(ec_input.created_at, ec_input.completed_at)
            /\ ec_input.due_date # NoneStr =>
                  StrLeq(ec_input.due_date, ec_input.completed_at))
           => ec_ret.completed_at = ec_input.completed_at

\* C4 amended: as C4, except that a present completed is returned unchanged
\* when it is at or after the reference the code uses, which is the returned
\* (possibly corrected) due if due is present, else created.
C4_OnlyOutOfOrderChangedAmended ==
    EcReturnedFirst =>
        /\ C4_Frame
        /\ (ec_input.completed_at # NoneStr
            /\ StrLeq(IF ec_ret.due_date # NoneStr THEN ec_ret.due_date
                                                   ELSE ec_ret.created_at,
                      ec_input.completed_at))
           => ec_ret.completed_at = ec_input.completed_at

\* C4 witness: a call with due = created and a completed at or after due has
\* returned, and returned its arguments unchanged.
C4_Witness ==
    /\ EcReturnedFirst
    /\ ec_input.due_date = ec_input.created_at
    /\ ec_input.completed_at # NoneStr
    /\ StrLeq(ec_input.due_date, ec_input.completed_at)
    /\ ec_ret = ec_input


-----------------------------------------------------------------------------
(* Properties of generate_users, checked under SpecUsers / SpecUsersFair *)

DistinctEmails(us) ==
    \A i, j \in 1..Len(us) : us[i].email = us[j].email => i = j

EmailsOf(us) == {us[i].email : i \in 1..Len(us)}

\* C7: whatever candidates the profile provider returns, repeated ones
\* included, the emails of the users built and of the users returned by one
\* generate_users call are pairwise distinct; the seen set holds exactly the
\* emails assigned so far, so an email of the seen set is never assigned again.
C7_EmailsUnique ==
    /\ DistinctEmails(gu_users)
    /\ seen_emails = EmailsOf(gu_users)
    /\ gu_pc = "returned" =>
          /\ DistinctEmails(gu_ret)
          /\ EmailsOf(gu_ret) \subseteq seen_emails

\* C7 witness: the call has returned at least two users, one of them with an
\* email that had to be changed because its candidate was a repetition.
C7_Witness ==
    /\ gu_pc = "returned"
    /\ Len(gu_ret) >= 2
    /\ \E i \in 1..Len(gu_ret) : gu_ret[i].email \notin Candidates

\* the candidate's local part, "+", the counter, "@", the candidate's domain
IsSuffixedForm(email, candidate, c) ==
    LET at == FirstAt(candidate)
    IN  /\ Len(email) = Len(candidate) + 2
        /\ \A i \in 1..(at - 1) : email[i] = candidate[i]
        /\ email[at] = "+"
        /\ email[at + 1] = ToString(c)
        /\ \A i \in at..Len(candidate) : email[i + 2] = candidate[i]

\* the state of the dedupe loop: the current form is the candidate itself or
\* the candidate with the current counter, and every form tried before it is
\* in the seen set
C8_LoopState ==
    gu_pc = "dedupe" =>
        /\ counter = 1 => unique_email = gu_email
        /\ counter > 1 =>
              /\ IsSuffixedForm(unique_email, gu_email, counter)
              /\ gu_email \in seen_emails
              /\ \A k \in 2..(counter - 1) :
                    \E e \in seen_emails : IsSuffixedForm(e, gu_email, k)
        /\ counter <= Cardinality(seen_emails) + 1

\* the email assigned to the user appended last is the form the loop ended on
C8_Assigned ==
    (gu_pc \in {"profile", "team", "shuffle", "returned"} /\ gu_users # << >>)
        => /\ gu_users[Len(gu_users)].email = unique_email
           /\ counter = 1 => unique_email = gu_email
           /\ counter > 1 => IsSuffixedForm(unique_email, gu_email, counter)

\* C8: a candidate not in the seen set is used unchanged; a candidate in the
\* seen set is replaced by its local part followed by "+" and a counter, before
\* the "@" and the unchanged domain, the counter being raised one by one
\* (from 2) until the form is not in the seen set; the loop ends after at most
\* as many iterations as the seen set has elements.
C8_DedupeForm ==
    /\ [](C8_LoopState /\ C8_Assigned)
    /\ (gu_pc = "dedupe") ~> (gu_pc = "profile")

\* C8 witness: a user was appended whose candidate needed the counter 3.
C8_Witness ==
    /\ gu_pc = "profile"
    /\ gu_users # << >>
    /\ counter = 3
    /\ gu_users[Len(gu_users)].email = FormatEmail(SplitLocal(gu_email), 3,
                                                   SplitDomain(gu_email))


\* C23: for every non-empty list of teams and every total_users >= 0,
\* generate_users returns at most total_users users: the users built for
\* all teams, shuffled and cut to the first total_users.  The returned
\* users are users that were built, none of them twice, and their emails
\* are pairwise distinct.
C23_UsersCapped ==
    gu_pc = "returned" =>
       /\ Len(gu_ret) <= gu_total
       /\ Len(gu_ret) = Min(gu_total, Len(gu_users))
       /\ \A i \in 1..Len(gu_ret) :
             \E k \in 1..Len(gu_users) : gu_ret[i] = gu_users[k]
       /\ \A i, j \in 1..Len(gu_ret) :
             gu_ret[i].user_id = gu_ret[j].user_id => i = j
       /\ DistinctEmails(gu_ret)

\* C23 witness: more users were built than total_users (every team gets
\* at least one), and the call returned total_users of them, not the
\* first ones built.
C23_Witness ==
    /\ gu_pc = "returned"
    /\ gu_total >= 1
    /\ Len(gu_users) > gu_total
    /\ Len(gu_ret) = gu_total
    /\ gu_ret # SubSeq(gu_users, 1, gu_total)

\* C23 witness: total_users = 0, one user built per team, none returned.
C23_WitnessZero ==
    /\ gu_pc = "returned"
    /\ gu_total = 0
    /\ gu_users # << >>
    /\ gu_ret = << >>

-----------------------------------------------------------------------------
(* Properties of generate_tasks, checked under SpecTasks *)

RECURSIVE SumSeq(_)
SumSeq(q) == IF q = << >> THEN 0 ELSE q[1] + SumSeq(Tail(q))

\* number of tasks of the project at position pos
TasksOf(pos) ==
    Cardinality({k \in 1..Len(gt_tasks) :
                    gt_tasks[k].project_id = gt_projects[pos]})

\* C9: the number of tasks returned never exceeds total_task_limit; it equals
\* the limit whenever the sum of the per-project counts drawn exceeds the
\* limit, and it is below the limit only when a count was drawn for every
\* project and their sum is below the limit.
C9_CapEnforced ==
    /\ Len(gt_tasks) <= gt_limit
    /\ gt_pc = "returned" =>
          /\ SumSeq(gt_drawn) > gt_limit => Len(gt_tasks) = gt_limit
          /\ Len(gt_tasks) < gt_limit =>
                /\ Len(gt_drawn) = Len(gt_projects)
                /\ SumSeq(gt_drawn) < gt_limit
                /\ Len(gt_tasks) = SumSeq(gt_drawn)

\* C9 witness: a call has returned exactly total_task_limit tasks although
\* the counts drawn add up to more.
C9_Witness ==
    /\ gt_pc = "returned"
    /\ SumSeq(gt_drawn) > gt_limit
    /\ Len(gt_tasks) = gt_limit
    /\ Len(gt_projects) = 2

\* C9 second case: a call has returned fewer tasks than the limit.
C9_WitnessBelow ==
    /\ gt_pc = "returned"
    /\ Len(gt_tasks) < gt_limit
    /\ Len(gt_projects) = 2

\* C10: the running total is checked before each task and generate_tasks
\* returns at once when it has reached total_task_limit: the project being
\* processed keeps only the tasks already created, fewer than were drawn for
\* it, no later project receives a task, and every earlier project has
\* exactly the number of tasks drawn for it.  A call that returns at the end
\* of the loop gave every project exactly the number drawn for it.
C10_HaltAtCap ==
    /\ (gt_pc = "returned" /\ gt_early) =>
          /\ Len(gt_tasks) = gt_limit
          /\ Len(gt_drawn) = gt_p
          /\ \A q \in 1..(gt_p - 1) : TasksOf(q) = gt_drawn[q]
          /\ TasksOf(gt_p) = gt_i
          /\ gt_i < gt_drawn[gt_p]
          /\ \A q \in (gt_p + 1)..Len(gt_projects) : TasksOf(q) = 0
    /\ (gt_pc = "returned" /\ ~gt_early) =>
          /\ Len(gt_drawn) = Len(gt_projects)
          /\ \A q \in 1..Len(gt_projects) : TasksOf(q) = gt_drawn[q]
    /\ \A k \in 1..(Len(gt_tasks) - 1) :
          \E q1, q2 \in 1..Len(gt_projects) :
              /\ gt_tasks[k].project_id = gt_projects[q1]
              /\ gt_tasks[k + 1].project_id = gt_projects[q2]
              /\ q1 <= q2

\* C10 witness: with three projects the limit was reached inside the second
\* one, after some of its tasks were created: the first project is complete,
\* the second one partial and the third one empty.
C10_Witness ==
    /\ gt_pc = "returned"
    /\ gt_early
    /\ Len(gt_projects) = 3
    /\ gt_p = 2
    /\ gt_i > 0
    /\ TasksOf(1) = gt_drawn[1]
    /\ TasksOf(2) < gt_drawn[2]
    /\ TasksOf(3) = 0

\* C10 second case: the limit was reached at the first task of a project.
C10_WitnessAtProjectStart ==
    /\ gt_pc = "returned"
    /\ gt_early
    /\ gt_p = 2
    /\ gt_i = 0

-----------------------------------------------------------------------------
(* Properties of main, checked under Spec *)

TeamIds(ts) == {ts[k].team_id : k \in 1..Len(ts)}

UserIds(us) == {us[k].user_id : k \in 1..Len(us)}

ProjectIds(ps) == {ps[k].project_id : k \in 1..Len(ps)}

TaskIds(ts) == {ts[k].task_id : k \in 1..Len(ts)}

TagIds(ts) == {ts[k].tag_id : k \in 1..Len(ts)}

\* every foreign key of the given collections resolves in the given parents
Resolves(o, tm, us, ps, ss, tk, st, cm, tg, tt, at, cf) ==
    /\ \A k \in 1..Len(tm) : tm[k].org_id = o.org_id
    /\ \A k \in 1..Len(us) : us[k].team_id \in TeamIds(tm)
    /\ \A k \in 1..Len(ps) : ps[k].team_id \in TeamIds(tm)
    /\ \A k \in 1..Len(ss) : ss[k].project_id \in ProjectIds(ps)
    /\ \A k \in 1..Len(tk) :
          /\ tk[k].project_id \in ProjectIds(ps)
          /\ tk[k].assignee_id \in {NoId} \cup UserIds(us)
    /\ \A k \in 1..Len(st) :
          /\ st[k].parent_task_id \in TaskIds(tk)
          /\ st[k].assignee_id \in {NoId} \cup UserIds(us)
    /\ \A k \in 1..Len(cm) :
          /\ cm[k].task_id \in TaskIds(tk)
          /\ cm[k].user_id \in UserIds(us)
    /\ \A k \in 1..Len(tt) :
          /\ tt[k].task_id \in TaskIds(tk)
          /\ tt[k].tag_id \in TagIds(tg)
    /\ \A k \in 1..Len(at) : at[k].task_id \in TaskIds(tk)
    /\ \A k \in 1..Len(cf) : cf[k].project_id \in ProjectIds(ps)

\* C5: at every point of the run, and so after the full run, every foreign
\* key of every generated record is the id of a record of the parent
\* collection generated before it: team.org_id is the organization's id;
\* user.team_id and project.team_id are in teams; section, task and custom
\* field project_id are in projects; task and subtask assignee_id are null or
\* in the returned (shuffled and truncated) users; subtask, comment,
\* attachment and task_tag task ids are in tasks; comment.user_id is in
\* users; task_tag.tag_id is in tags.
C5_ForeignKeysResolve ==
    Resolves(org, teams, users, projects, sections, tasks, subtasks, comments,
             tags, task_tags, attachments, custom_fields)

\* C5 witness: a full run in which the truncation dropped a user and tasks,
\* subtasks, comments, task-tag links and attachments were generated, with an
\* assigned task and an assigned subtask.
C5_Witness ==
    /\ m_pc = "done"
    /\ Len(all_users) > Len(users)
    /\ \E k \in 1..Len(tasks) : tasks[k].assignee_id # NoId
    /\ \E k \in 1..Len(subtasks) : subtasks[k].assignee_id # NoId
    /\ comments # << >>
    /\ task_tags # << >>
    /\ attachments # << >>
    /\ Len(tasks) = MainTaskLimit

\* the table that references and the table that is referenced
References ==
    { <<"teams", "organizations">>, <<"users", "teams">>,
      <<"projects", "teams">>, <<"sections", "projects">>,
      <<"tasks", "projects">>, <<"tasks", "users">>,
      <<"subtasks", "tasks">>, <<"subtasks", "users">>,
      <<"comments", "tasks">>, <<"comments", "users">>,
      <<"task_tags", "tasks">>, <<"task_tags", "tags">>,
      <<"attachments", "tasks">>, <<"custom_fields", "projects">> }

PositionsOf(table) == {k \in 1..Len(insert_calls) : insert_calls[k] = table}

\* the committed rows satisfy every foreign key, as a store that enforces
\* foreign keys demands of each batch
DbAccepted ==
    Resolves(IF db["organizations"] = << >> THEN NoOrg
                                            ELSE db["organizations"][1],
             db["teams"], db["users"], db["projects"], db["sections"],
             db["tasks"], db["subtasks"], db["comments"], db["tags"],
             db["task_tags"], db["attachments"], db["custom_fields"])

\* C6: insert_data is called at most once per entity type, after the run
\* exactly once for each of the twelve types, and in dependency order: the
\* batch of a referenced type is inserted before the batch of every type that
\* references it, so the committed rows satisfy every foreign key at every
\* moment; a call with an empty batch inserts no row and does not commit.
C6_InsertOrder ==
    /\ \A t \in Tables : Cardinality(PositionsOf(t)) <= 1
    /\ \A r \in References :
          \A k \in PositionsOf(r[1]) : \E j \in PositionsOf(r[2]) : j < k
    /\ DbAccepted
    /\ m_pc \in {"close", "done"} =>
          /\ Len(insert_calls) = 12
          /\ {insert_calls[k] : k \in 1..Len(insert_calls)} =
                {"organizations", "teams", "users", "projects", "sections",
                 "tasks", "subtasks", "comments", "tags", "task_tags",
                 "attachments", "custom_fields"}
    /\ m_pc \notin {"insert", "close", "done"} => insert_calls = << >>
    /\ \A t \in Tables :
          db[t] = IF PositionsOf(t) # {} THEN Batch(t) ELSE << >>
    /\ commits = Cardinality({k \in 1..Len(insert_calls) :
                                 Batch(insert_calls[k]) # << >>})

\* C6 witness: a full run whose subtasks and attachments batches were empty
\* and whose other batches were not: ten commits for twelve calls.
C6_Witness ==
    /\ m_pc = "done"
    /\ subtasks = << >>
    /\ attachments = << >>
    /\ comments # << >>
    /\ task_tags # << >>
    /\ Len(insert_calls) = 12
    /\ commits = 10

\* the position in the list of parents of the parent a record refers to
ParentIndex(parents, idField, id) ==
    CHOOSE k \in 1..Len(parents) : parents[k][idField] = id

\* the records of children come in the order of their parents in the list
\* the generator went through
FollowsParents(children, key, parents, idField) ==
    \A a \in 1..(Len(children) - 1) :
       ParentIndex(parents, idField, children[a][key])
          <= ParentIndex(parents, idField, children[a + 1][key])

\* C22: the records of every entity type come in the order in which their
\* generator went through the parents: projects by team in the order of
\* teams; sections, tasks and custom fields by project in the order of
\* projects; subtasks, comments, attachments and task-tag links by task in
\* the order of tasks.  The users are generated team by team too and then
\* shuffled once, after the last team, and truncated: the returned users
\* are a rearranged part of them.
C22_OrderFollowsParents ==
    /\ FollowsParents(projects, "team_id", teams, "team_id")
    /\ FollowsParents(sections, "project_id", projects, "project_id")
    /\ FollowsParents(tasks, "project_id", projects, "project_id")
    /\ FollowsParents(custom_fields, "project_id", projects, "project_id")
    /\ FollowsParents(subtasks, "parent_task_id", tasks, "task_id")
    /\ FollowsParents(comments, "task_id", tasks, "task_id")
    /\ FollowsParents(attachments, "task_id", tasks, "task_id")
    /\ FollowsParents(task_tags, "task_id", tasks, "task_id")
    /\ FollowsParents(all_users, "team_id", teams, "team_id")
    /\ m_pc = "users" => users = << >>
    /\ m_pc \notin {"idle", "setup", "organization", "teams", "users"} =>
          users \in ShuffleTruncate(all_users, MainTotalUsers)

\* the first and the last record of a list belong to different parents
TwoParents(children, key) ==
    children # << >> /\ children[1][key] # children[Len(children)][key]

\* C22 witness: a full run with projects of two teams, tasks of two
\* projects and subtasks, comments, attachments and task-tag links of two
\* tasks.
C22_Witness ==
    /\ m_pc = "done"
    /\ TwoParents(projects, "team_id")
    /\ TwoParents(sections, "project_id")
    /\ TwoParents(tasks, "project_id")
    /\ TwoParents(custom_fields, "project_id")
    /\ TwoParents(subtasks, "parent_task_id")
    /\ TwoParents(comments, "task_id")
    /\ TwoParents(attachments, "task_id")
    /\ TwoParents(task_tags, "task_id")

-----------------------------------------------------------------------------
(* Properties of the record generators, checked under SpecRecords *)

\* the generator gen has just appended the record r_rec
Appended(gen) == r_gen = gen /\ r_pc = "appended"

\* C11: in every task appended by generate_tasks and every subtask appended
\* by generate_subtasks, completed is true exactly when status is "Done",
\* and completed_at is present exactly when completed is true.
C11_CompletedIffDone ==
    (Appended("tasks") \/ Appended("subtasks"))
        => /\ r_rec.completed <=> (r_rec.status = "Done")
           /\ (r_rec.completed_at # NoneStr) <=> r_rec.completed

\* C11 witness: a task with status "Done" was appended; it is completed and
\* carries a completed_at.
C11_Witness ==
    /\ Appended("tasks")
    /\ r_rec.status = "Done"
    /\ r_rec.completed
    /\ r_rec.completed_at # NoneStr

\* C11, second case: a subtask that is not "Done" under a parent that is not
\* "Done" was appended, without completed_at.
C11_WitnessOpenSubtask ==
    /\ Appended("subtasks")
    /\ r_rec.status = "In Progress"
    /\ ~r_rec.completed
    /\ r_rec.completed_at = NoneStr

\* C12: every appended task and subtask has created_at <= due_date, and
\* due_date <= completed_at when completed_at is present; every appended
\* project has created_at <= start_date, and start_date <= end_date when
\* end_date is present.
C12_RecordsInOrder ==
    /\ (Appended("tasks") \/ Appended("subtasks"))
           => /\ StrLeq(r_rec.created_at, r_rec.due_date)
              /\ r_rec.completed_at # NoneStr
                     => StrLeq(r_rec.due_date, r_rec.completed_at)
    /\ Appended("projects")
           => /\ StrLeq(r_rec.created_at, r_rec.start_date)
              /\ r_rec.end_date # NoneStr
                     => StrLeq(r_rec.start_date, r_rec.end_date)

\* C12 witness: a completed subtask was appended whose completed_at was
\* drawn before its due_date and moved after it: the draw lies in
\* [created_at, due_date], so that a completed_at after due_date is a
\* corrected one.
C12_Witness ==
    /\ Appended("subtasks")
    /\ r_rec.completed_at # NoneStr
    /\ StrLt(r_rec.created_at, r_rec.due_date)
    /\ StrLt(r_rec.due_date, r_rec.completed_at)

\* C12, second case: a project with an end_date after its start_date after
\* its created_at was appended.
C12_WitnessProject ==
    /\ Appended("projects")
    /\ r_rec.end_date # NoneStr
    /\ StrLt(r_rec.created_at, r_rec.start_date)
    /\ StrLt(r_rec.start_date, r_rec.end_date)

\* the ordered template the sections of a department are taken from
TemplateOf(department) ==
    CASE department \in {"Engineering", "Product"} -> EngineeringSections
      [] department \in {"Marketing", "Design"}    -> MarketingDesignSections
      [] OTHER                                     -> DefaultSections

\* C13: the sections appended for a project are the first N names of the
\* ordered template of its department, in template order, with the positions
\* 1..N, where N is 5 or 6 for Engineering and Product (a template of 6
\* names), 4 or 5 for Marketing and Design, and 3 to 5 for any other or
\* absent department.
C13_SectionsArePrefix ==
    Appended("sections") =>
        LET department == r_parents[1].department
            N == Len(r_rec)
        IN  /\ N <= Len(TemplateOf(department))
            /\ \A k \in 1..N :
                  /\ r_rec[k].name = TemplateOf(department)[k]
                  /\ r_rec[k].position = k
                  /\ r_rec[k].project_id = r_parents[1].project_id
            /\ department \in {"Engineering", "Product"}
                   => N \in 5..6 /\ Len(TemplateOf(department)) = 6
            /\ department \in {"Marketing", "Design"} => N \in 4..5
            /\ department \notin {"Engineering", "Product", "Marketing",
                                  "Design"} => N \in 3..5

\* C13 witness: an Engineering project received the six sections Backlog ..
\* Released.
C13_Witness ==
    /\ Appended("sections")
    /\ r_parents[1].department = "Engineering"
    /\ Len(r_rec) = 6
    /\ r_rec[1].name = "Backlog"
    /\ r_rec[6].name = "Released"
    /\ r_rec[6].position = 6

\* C13, other cases: a Design project with four sections, and a project
\* without department with three.
C13_WitnessDesign ==
    /\ Appended("sections")
    /\ r_parents[1].department = "Design"
    /\ Len(r_rec) = 4
    /\ r_rec[4].name = "Review"

C13_WitnessNoDepartment ==
    /\ Appended("sections")
    /\ r_parents[1].department = NoneLabel
    /\ Len(r_rec) = 3
    /\ r_rec[3].name = "In Progress"

\* C20: a project appended by generate_projects has an end_date only if its
\* status is "Completed"; a project that is "Active", "On Hold" or
\* "Not Started" has none.  (generate_projects also gives an end_date to
\* every "Active" project.)
C20_EndDateOnlyCompleted ==
    Appended("projects") =>
        (r_rec.end_date # NoneStr => r_rec.status = "Completed")

\* the free text of a record
TextOf(rec) == IF rec.kind = "comment" THEN rec.text ELSE rec.description

\* the exceptions with which a failure of the text source ends a generator:
\* open() of a prompt file that is missing, random.choice of an empty
\* prompt list
TextSourceErrors == {"FileNotFoundError", "IndexError"}

\* C18: no failure of the text source ends generate_projects,
\* generate_tasks, generate_subtasks or generate_comments with an
\* exception, whether the content provider call raises or the prompt list
\* cannot be loaded or is empty; the record of a failed provider call still
\* carries a text.  (generate_tasks calls load_prompts and
\* random.choice(prompts) outside any try: a missing prompt file ends it
\* with FileNotFoundError, a file without prompt with IndexError.)
C18_TextFailureNeverSurfaces ==
    r_gen \in {"projects", "tasks", "subtasks", "comments"} =>
       /\ r_pc = "raised" => r_exc \notin TextSourceErrors
       /\ (r_pc = "appended" /\ r_call = "raised") => TextOf(r_rec) # << >>

\* C19: when the content provider call failed, the text of the record is
\* the static fallback of its entity type: one of the project fallback
\* descriptions, "Complete the task: <task name>." for a task, "Subtask to
\* <name> for parent task: <parent>." for a subtask, one of the fallback
\* comments.  (generate_text catches the failure itself and returns one of
\* the sentences of random_sentence, whatever the entity type; the except
\* clauses of the generators are never entered.)
C19_StaticFallbackOnFailure ==
    (r_pc = "appended" /\ r_call = "raised") =>
       CASE r_gen = "projects" ->
               \E k \in 1..Len(ProjectFallbackDescriptions) :
                  r_rec.description = ProjectFallbackDescriptions[k]
         [] r_gen = "tasks" ->
               r_rec.description = TaskFallback(r_rec.name)
         [] r_gen = "subtasks" ->
               r_rec.description = SubtaskFallback(r_rec.name, r_parents[1].name)
         [] r_gen = "comments" ->
               \E k \in 1..Len(FallbackComments) :
                  r_rec.text = FallbackComments[k]
         [] OTHER -> TRUE

\* C24: the created date of a record is never earlier than the created
\* date of its parent: a task is not created before its project, a project
\* not before its team.  (Both generators draw created_at from the fixed
\* window 2021-01-01 .. 2025-01-01, whatever the parent's date: a task of
\* a project created on 2023-03-01 can be created on 2021-01-01.  Users and
\* teams draw from fixed windows in the same way.)
C24_ChildNotBeforeParent ==
    /\ (Appended("tasks") /\ r_parents[1].created_at # NoneStr) =>
          ~StrLt(r_rec.created_at, r_parents[1].created_at)
    /\ Appended("projects") =>
          ~StrLt(r_rec.created_at, r_parents[1].created_at)

-----------------------------------------------------------------------------
(* Determinism, checked under SpecRuns *)

\* C14: two runs with the same seed and the same arguments return the same
\* records, field for field, the identifiers minted by generate_uuid
\* included.  (generate_uuid takes its value from uuid.uuid4, which the seed
\* does not determine.)
C14_SameSeedSameOutput ==
    d_pc = "done" => d_out[1] = d_out[2]

-----------------------------------------------------------------------------
(* weighted_choice, checked under SpecChoice *)

\* C17: a call of weighted_choice raises exactly when the dictionary is
\* empty or holds at least one weight that is zero or negative, and a call
\* that returns gives back one of the keys.  (The code only rejects the
\* empty dictionary, and random.choices only a total that is not positive:
\* {"a": 0, "b": 1} returns "b".)
C17_RejectsNonPositiveWeight ==
    /\ wc_pc \in {"returned", "raised"} =>
          (wc_pc = "raised" <=>
              \/ wc_choices = << >>
              \/ \E k \in 1..Len(wc_choices) : wc_choices[k][2] <= 0)
    /\ wc_pc = "returned" =>
          \E k \in 1..Len(wc_choices) : wc_ret = wc_choices[k][1]

-----------------------------------------------------------------------------
(* The generation pass and the hand-over to insert_data, checked under Spec *)

IsPrefixOf(a, b) == Len(a) <= Len(b) /\ SubSeq(b, 1, Len(a)) = a

\* the records of a type generated so far
Generated(table) ==
    IF table = "organizations" /\ org = NoOrg THEN << >> ELSE Batch(table)

\* a step of main: the statements are passed once, in their order, the
\* main goes through its steps in order, or leaves them with an exception;
\* records of a type change only while main generates that type, and then
\* only by records added after the ones already there
GeneratedOnceAndKept ==
    /\ m_pc' # m_pc =>
          \/ \E k \in 1..(Len(RunSteps) - 1) :
                m_pc = RunSteps[k] /\ m_pc' = RunSteps[k + 1]
          \/ m_pc' \in {"failed", "config_error"}
    /\ \A t \in Tables :
          Generated(t)' # Generated(t) =>
             m_pc = GenStep(t) /\ IsPrefixOf(Generated(t), Generated(t)')

\* when the generation of a type starts, insert_data was already called
\* for the type generated before it
InsertedBeforeNextType ==
    \A k \in 1..(Len(GenOrder) - 1) :
       m_pc = GenStep(GenOrder[k + 1]) =>
          \E j \in 1..Len(insert_calls) : insert_calls[j] = GenOrder[k]

\* insert_data is first called when all twelve types are generated; the
\* calls follow the order of generation and commit the records as generated
InsertedAfterAllTypes ==
    /\ insert_calls # << >> => m_pc \in {"insert", "close", "done"}
    /\ IsPrefixOf(insert_calls, GenOrder)
    /\ \A k \in 1..Len(insert_calls) :
          db[insert_calls[k]] = Batch(insert_calls[k])

\* C16 as stated: every entity type is generated exactly once, no record is
\* generated again or modified after it was generated, and the batch of a
\* type is handed to insert_data before the generation of the next type
\* starts.  (main generates all twelve types first and calls insert_data
\* afterwards, so the last part fails when generate_teams starts.)
C16_HandedImmediately ==
    [][GeneratedOnceAndKept]_vars /\ []InsertedBeforeNextType

\* C16 amended: every entity type is generated exactly once, in one pass,
\* and no record is generated again or modified after it was generated; the
\* batches are handed to insert_data only after all twelve types are
\* generated, in the order of generation and with the records as generated.
C16_GeneratedThenInserted ==
    [][GeneratedOnceAndKept]_vars /\ []InsertedAfterAllTypes

\* C16 witness: all twelve types are generated and only the organizations
\* batch has been handed to insert_data.
C16_Witness ==
    /\ m_pc = "insert"
    /\ insert_calls = <<"organizations">>
    /\ db["organizations"] = <<org>>
    /\ db["teams"] = << >>
    /\ teams # << >>
    /\ tasks # << >>
    /\ comments # << >>
    /\ custom_fields # << >>

-----------------------------------------------------------------------------
(* Configuration errors in main, checked under SpecConfig *)

\* a step in which a generator rejects its configuration
RejectedBeforeEmit ==
    m_pc' = "config_error" =>
       /\ insert_calls' = << >>
       /\ commits' = 0
       /\ \A t \in Tables : db'[t] = << >>
       /\ m_pc = "teams" => teams' = << >>

\* C21: a configuration error (no department in the catalog, a count that
\* is not positive, an empty list of teams or projects, an empty count
\* range) ends the run before any record is emitted: when a generator
\* raises it in main, insert_data has not been called and no row is
\* committed; generate_teams raises on an empty catalog before it has
\* created a team.
C21_ConfigErrorBeforeEmit == [][RejectedBeforeEmit]_vars

\* C21 witness: generate_teams has rejected an empty catalog, after the
\* organization was generated.
C21_Witness ==
    /\ m_pc = "config_error"
    /\ org # NoOrg
    /\ teams = << >>
    /\ insert_calls = << >>

\* C21 witness: generate_tasks has rejected its count range, after the
\* projects and sections were generated.
C21_WitnessCountRange ==
    /\ m_pc = "config_error"
    /\ projects # << >>
    /\ sections # << >>
    /\ tasks = << >>
    /\ insert_calls = << >>

-----------------------------------------------------------------------------
(* Failure of main, checked under SpecFail *)

NothingCommitted == \A t \in Tables : db[t] = << >>

AllCommitted == \A t \in Tables : db[t] = Batch(t)

\* C15: when main fails with an exception, during the database setup, a
\* generation step or an insert_data call, no partially populated database
\* is left: the database of an earlier run is still in place, or none of
\* the twelve batches is committed, or all of them are.  (insert_data
\* commits after every batch, so that a failure after the first insert
\* leaves the batches committed so far.)
C15_NoPartialDatabase ==
    m_pc = "failed" => (db = EarlierDb \/ NothingCommitted \/ AllCommitted)


-----------------------------------------------------------------------------
(* Properties of generate_tags and assign_tags_to_tasks, checked under
   SpecTags *)

\* the number of distinct names among the suggested names
DistinctTagNames ==
    Cardinality({SuggestedTagNames[k] : k \in 1..Len(SuggestedTagNames)})

TagsOver == tg_fn = "generate_tags" /\ tg_pc \in {"returned", "raised"}

\* C25: generate_tags(n) returns exactly n tags whose names are pairwise
\* distinct for every n from 1 to the number of distinct suggested names; for
\* n <= 0 and for n above that number it raises, and no tag is returned.
C25_TagsExactAndDistinct ==
    TagsOver =>
        IF tg_arg >= 1 /\ tg_arg <= DistinctTagNames
        THEN /\ tg_pc = "returned"
             /\ Len(tg_ret) = tg_arg
             /\ \A a, b \in 1..Len(tg_ret) :
                    tg_ret[a].name = tg_ret[b].name => a = b
        ELSE /\ tg_pc = "raised"
             /\ tg_ret = << >>

\* every distinct name is asked for, and returned
C25_Witness ==
    /\ tg_fn = "generate_tags" /\ tg_pc = "returned"
    /\ tg_arg = DistinctTagNames
    /\ Len(tg_ret) = DistinctTagNames

\* one name more than there are is asked for
C25_WitnessTooMany ==
    /\ tg_fn = "generate_tags" /\ tg_pc = "raised"
    /\ tg_arg = DistinctTagNames + 1

-----------------------------------------------------------------------------
(* Properties of the children of a task: generate_subtasks,
   generate_comments and generate_attachments, checked under SpecRecords *)

\* the task's created_at is not after its due_date, as in every task that
\* generate_tasks returns
WindowInOrder(task) ==
    /\ ~ParentLacksDates(task)
    /\ StrLeq(task.created_at, task.due_date)

InWindow(date, task) ==
    StrLeq(task.created_at, date) /\ StrLeq(date, task.due_date)

\* between the earlier and the later of two dates, both included
BetweenDates(date, a, b) ==
    \/ StrLeq(a, date) /\ StrLeq(date, b)
    \/ StrLeq(b, date) /\ StrLeq(date, a)

\* C26: the dates of the children of a task lie in the task's window
\* [created_at, due_date]: a subtask's created_at and due_date, with
\* created_at <= due_date; a comment's created_at; an attachment's
\* uploaded_at.  random_date(a, b) returns a date between the earlier and the
\* later of a and b whatever their order: the uploaded_at of an attachment
\* and the created_at of a subtask are such dates, also for a task whose two
\* dates are the other way round.
C26_ChildDatesInWindow ==
    /\ (Appended("subtasks") /\ WindowInOrder(r_parents[1]))
           => /\ InWindow(r_rec.created_at, r_parents[1])
              /\ InWindow(r_rec.due_date, r_parents[1])
              /\ StrLeq(r_rec.created_at, r_rec.due_date)
    /\ (Appended("comments") /\ WindowInOrder(r_parents[1]))
           => InWindow(r_rec.created_at, r_parents[1])
    /\ (Appended("attachments") /\ WindowInOrder(r_parents[1]))
           => InWindow(r_rec.uploaded_at, r_parents[1])
    /\ Appended("attachments")
           => BetweenDates(r_rec.uploaded_at, r_parents[1].created_at,
                           r_parents[1].due_date)
    /\ Appended("subtasks")
           => BetweenDates(r_rec.created_at, r_parents[1].created_at,
                           r_parents[1].due_date)

\* a subtask created and due on the last day of a window of several days
C26_Witness ==
    /\ Appended("subtasks")
    /\ StrLt(r_parents[1].created_at, r_parents[1].due_date)
    /\ r_rec.created_at = r_parents[1].due_date
    /\ r_rec.due_date = r_parents[1].due_date

\* random_date with its first argument after the second
C26_WitnessSwapped ==
    /\ Appended("attachments")
    /\ StrLt(r_parents[1].due_date, r_parents[1].created_at)
    /\ r_rec.uploaded_at = r_parents[1].due_date

\* a comment on the first day of the window
C26_WitnessComment ==
    /\ Appended("comments")
    /\ StrLt(r_parents[1].created_at, r_parents[1].due_date)
    /\ r_rec.created_at = r_parents[1].created_at

-----------------------------------------------------------------------------
(* The range of num_tasks, checked under SpecTasks *)

\* the prompt file is there and holds at least one template
PromptsLoadable == ~LoadPromptsRaises(gt_file) /\ LoadPrompts(gt_file) # << >>

\* C27: for every non-empty list of projects and every positive
\* total_task_limit (the prompt file being in place, with a template in it),
\* generate_tasks does not raise: the range of num_tasks, from
\* max(20, base div 2) to min(150, 2 * base), has its low end at or below
\* its high end.
C27_CountRangeNeverEmpty ==
    (gt_projects # << >> /\ gt_limit > 0 /\ PromptsLoadable)
        => /\ gt_pc # "raised"
           /\ gt_pc # "call"
                  => NumTasksLow(base_tasks_per_project)
                         <= NumTasksHigh(base_tasks_per_project)

\* the task loop of generate_subtasks has handled the task
SubtasksTaskSeen ==
    r_gen = "subtasks" /\ r_pc \in {"loop", "appended", "returned"}
        /\ r_parents # << >>

\* C28: a selected task whose status is Done gets 1 or 2 subtasks, all of
\* status Done and completed; a selected task of another status gets 1 to 5
\* subtasks, each of status To Do, In Progress or Done; a task that is not
\* selected, or that lacks created_at or due_date, gets no subtask.
C28_SubtaskCounts ==
    /\ SubtasksTaskSeen =>
          IF a_sel /\ ~ParentLacksDates(r_parents[1])
          THEN /\ a_num >= 1
               /\ a_num <= (IF r_parents[1].status = "Done" THEN 2 ELSE 5)
               /\ r_count + a_left = a_num
               /\ r_pc = "returned" => r_count = a_num
          ELSE r_pc = "returned" /\ r_count = 0 /\ r_rec = NoRec
    /\ Appended("subtasks") =>
          IF r_parents[1].status = "Done"
          THEN r_rec.status = "Done" /\ r_rec.completed
          ELSE r_rec.status \in {"To Do", "In Progress", "Done"}

\* the second subtask of a Done task was appended and the call returned
C28_Witness ==
    /\ r_gen = "subtasks" /\ r_pc = "returned"
    /\ r_parents # << >>
    /\ r_parents[1].status = "Done"
    /\ r_count = 2
    /\ r_rec.status = "Done"

\* five subtasks for a task that is not Done
C28_WitnessFive ==
    /\ r_gen = "subtasks" /\ r_pc = "returned"
    /\ r_parents # << >>
    /\ r_parents[1].status = "In Progress"
    /\ r_count = 5

\* a selected task without due_date
C28_WitnessNoDates ==
    /\ r_gen = "subtasks" /\ r_pc = "returned"
    /\ r_parents # << >>
    /\ a_sel
    /\ r_parents[1].due_date = NoneStr
    /\ r_count = 0

AssignOver ==
    tg_fn = "assign_tags_to_tasks" /\ tg_pc \in {"returned", "raised"}

\* the number of links of task_tags that belong to the task
LinksOf(task_id) ==
    Cardinality({k \in 1..Len(tg_ret) : tg_ret[k].task_id = task_id})

\* no pair twice, and at most min(max_tags_per_task, number of tags) links
\* for each task
AssignLinksBounded ==
    tg_fn = "assign_tags_to_tasks" =>
        /\ \A a, b \in 1..Len(tg_ret) : tg_ret[a] = tg_ret[b] => a = b
        /\ \A k \in 1..Len(tg_tasks) :
               LinksOf(tg_tasks[k].task_id) <= Min(Max(tg_arg, 0), Len(tg_tags))

\* an empty list of tasks or of tags gives an empty list of links
AssignEmptyGivesNone ==
    (AssignOver /\ (tg_tasks = << >> \/ tg_tags = << >>))
        => tg_pc = "returned" /\ tg_ret = << >>

\* a negative max_tags_per_task is rejected when both lists have an element
AssignNegativeRejected ==
    (AssignOver /\ tg_tasks # << >> /\ tg_tags # << >>)
        => (tg_pc = "raised" <=> tg_arg < 0)

\* C29: assign_tags_to_tasks, on tasks and tags of distinct identifiers,
\* never emits the same (task_id, tag_id) pair twice and gives each task at
\* most min(max_tags_per_task, number of tags) links; it returns no link when
\* tasks or tags is empty; it raises for a negative max_tags_per_task.
C29_TagLinks ==
    /\ AssignLinksBounded
    /\ AssignEmptyGivesNone
    /\ (AssignOver /\ tg_arg < 0) => tg_pc = "raised"

-----------------------------------------------------------------------------
(* Properties of generate_attachments, checked under SpecAttachmentsFair *)

\* the text ends with the tokens of `ending`
EndsWith(text, ending) ==
    /\ Len(ending) <= Len(text)
    /\ SubSeq(text, Len(text) - Len(ending) + 1, Len(text)) = ending

\* used_names holds one name for each attachment appended for the task, at
\* most num_attachments of them
UsedNamesCounted ==
    (r_gen = "attachments" /\ r_pc \in {"name", "check", "appended"}) =>
        /\ Cardinality(a_used) = a_num - a_left
        /\ a_num <= MaxAttachments
        /\ r_pc = "appended" => r_rec.file_name \in a_used

\* the file name of an attachment that is appended is none of the names in
\* used_names, which are the names of the attachments appended for the task
\* before; used_names gets the new name and no other
AppendsUnusedName ==
    (r_gen = "attachments" /\ r_pc = "check" /\ r_pc' = "appended") =>
        /\ r_rec'.file_name \notin a_used
        /\ a_used' = a_used \cup {r_rec'.file_name}

\* the MIME type of an attachment is the one of the extension its file name
\* ends with
AttachmentTypeOfExtension ==
    Appended("attachments") =>
        \E k \in 1..Len(FileTypeKeys) :
            /\ EndsWith(r_rec.file_name, FileTypeKeys[k])
            /\ r_rec.file_type = FileTypeMap(FileTypeKeys[k])

\* there are more candidate names than attachments for one task, and while a
\* name is checked one of the names that can be drawn is unused
UnusedNameLeft ==
    /\ MaxAttachments < Len(FileNameSuffixes) * Len(FileTypeKeys)
    /\ (r_gen = "attachments" /\ r_pc = "check") =>
           \E name \in FileNames(r_parents[1].name) : name \notin a_used

\* the loop of lines 92-93 is left: the name under check is eventually one
\* that is not in used_names, which makes the condition of the loop false
RegenerationEnds ==
    (r_gen = "attachments" /\ r_pc = "check")
        ~> (r_gen = "attachments" /\ r_pc = "check"
                /\ ~NameUsed(a_name, a_used))

\* C30: the file names of the attachments of one task are pairwise distinct;
\* the MIME type of each attachment is the one mapped to the extension of its
\* file name; under fair draws the loop that regenerates the name until it
\* is unused terminates, a task getting at most 3 attachments out of 42
\* candidate names.
C30_DistinctNamesAndTermination ==
    /\ [][AppendsUnusedName]_vars
    /\ [](UsedNamesCounted /\ AttachmentTypeOfExtension /\ UnusedNameLeft)
    /\ RegenerationEnds

\* the third attachment of a task whose name holds full stops
C30_Witness ==
    /\ Appended("attachments")
    /\ Cardinality(a_used) = MaxAttachments
    /\ r_parents[1].name = <<"Release", " ", "v1", ".", "2", ".">>
    /\ r_rec.file_name = <<"release", "_", "v1", "_", "2", "_", "v2", ".", "jpg">>
    /\ r_rec.file_type = "image/jpeg"

\* the name drawn is one of the two names in use, and is drawn again
C30_WitnessRegenerating ==
    /\ r_gen = "attachments" /\ r_pc = "check"
    /\ Cardinality(a_used) = 2
    /\ a_name \in a_used

=============================================================================
